---- MODULE Spec2Model ----
(***************************************************************************)
(* Hand editor of the NLH hand recorder: the action list of one hand, the  *)
(* editor's current street and the action-input selection state, with the  *)
(* derived values of the ActionInput component (players in hand, folded    *)
(* seats, pot, street completion) as operators over that state.            *)
(*                                                                         *)
(* Chip amounts are integers counting half big blinds (1 BB = 2), so that  *)
(* 0.5 BB and 2.5 BB are exact.  The all-in sentinel stays -1.             *)
(***************************************************************************)
EXTENDS Integers, Sequences, FiniteSets, TLC

\* ------------------------------------------------------------------ bounds
\* number of actions appended in one editing session (each append draws a fresh
\* id), for each kind of session checked below
MaxAppends == 2
MaxAppendsRing == 3
MaxAppendsDeep == 4
MaxAppendsPostflop == 3
MaxAppendsLive == 3
MaxAppendsSizing == 2
MaxAppendsBlinds == 1
MaxAppendsPot == 2
MaxAppendsStacks == 2
MaxEntry == 1
MaxEntryNumpad == 2
MaxAppendsNumpad == 1
MaxAppendsOutOfRange == 1
MaxHistory == 3
MaxMembers == 2
MaxAppendsResize == 1
MaxAppendsSave == 1
\* calls of setState between two renders
MaxBatch == 2

\* ------------------------------------------------------------- static data
streets == <<"preflop", "flop", "turn", "river">>

Position == {"UTG", "UTG+1", "LJ", "HJ", "CO", "BTN", "SB", "BB"}

TABLE_SIZE_OPTIONS == 2..9

POSITIONS_BY_TABLE_SIZE ==
  [n \in TABLE_SIZE_OPTIONS |->
     CASE n = 2 -> <<"BTN", "BB">>
       [] n = 3 -> <<"BTN", "SB", "BB">>
       [] n = 4 -> <<"UTG", "BTN", "SB", "BB">>
       [] n = 5 -> <<"UTG", "CO", "BTN", "SB", "BB">>
       [] n = 6 -> <<"UTG", "HJ", "CO", "BTN", "SB", "BB">>
       [] n = 7 -> <<"UTG", "LJ", "HJ", "CO", "BTN", "SB", "BB">>
       [] n = 8 -> <<"UTG", "UTG+1", "LJ", "HJ", "CO", "BTN", "SB", "BB">>
       [] n = 9 -> <<"UTG", "UTG+1", "LJ", "HJ", "CO", "BTN", "SB", "BB">>]

PREFLOP_ACTION_ORDER ==
  [n \in TABLE_SIZE_OPTIONS |->
     CASE n = 2 -> <<"BTN", "BB">>
       [] n = 3 -> <<"BTN", "SB", "BB">>
       [] n = 4 -> <<"UTG", "BTN", "SB", "BB">>
       [] n = 5 -> <<"UTG", "CO", "BTN", "SB", "BB">>
       [] n = 6 -> <<"UTG", "HJ", "CO", "BTN", "SB", "BB">>
       [] n = 7 -> <<"UTG", "LJ", "HJ", "CO", "BTN", "SB", "BB">>
       [] n = 8 -> <<"UTG", "UTG+1", "LJ", "HJ", "CO", "BTN", "SB", "BB">>
       [] n = 9 -> <<"UTG", "UTG+1", "LJ", "HJ", "CO", "BTN", "SB", "BB">>]

\* variant of POSTFLOP_ACTION_ORDER whose 7-handed row names HJ twice and omits LJ
POSTFLOP_ACTION_ORDER_RepeatsASeat ==
  [n \in TABLE_SIZE_OPTIONS |->
     CASE n = 2 -> <<"BB", "BTN">>
       [] n = 3 -> <<"SB", "BB", "BTN">>
       [] n = 4 -> <<"SB", "BB", "UTG", "BTN">>
       [] n = 5 -> <<"SB", "BB", "UTG", "CO", "BTN">>
       [] n = 6 -> <<"SB", "BB", "UTG", "HJ", "CO", "BTN">>
       [] n = 7 -> <<"SB", "BB", "UTG", "HJ", "HJ", "CO", "BTN">>
       [] n = 8 -> <<"SB", "BB", "UTG", "UTG+1", "LJ", "HJ", "CO", "BTN">>
       [] n = 9 -> <<"SB", "BB", "UTG", "UTG+1", "LJ", "HJ", "CO", "BTN">>]

POSTFLOP_ACTION_ORDER ==
  [n \in TABLE_SIZE_OPTIONS |->
     CASE n = 2 -> <<"BB", "BTN">>
       [] n = 3 -> <<"SB", "BB", "BTN">>
       [] n = 4 -> <<"SB", "BB", "UTG", "BTN">>
       [] n = 5 -> <<"SB", "BB", "UTG", "CO", "BTN">>
       [] n = 6 -> <<"SB", "BB", "UTG", "HJ", "CO", "BTN">>
       [] n = 7 -> <<"SB", "BB", "UTG", "LJ", "HJ", "CO", "BTN">>
       [] n = 8 -> <<"SB", "BB", "UTG", "UTG+1", "LJ", "HJ", "CO", "BTN">>
       [] n = 9 -> <<"SB", "BB", "UTG", "UTG+1", "LJ", "HJ", "CO", "BTN">>]

RANKS == <<"A", "K", "Q", "J", "T", "9", "8", "7", "6", "5", "4", "3", "2">>
SUITS == <<"s", "h", "d", "c">>

BLIND_OPTIONS == {"0.5/1", "1/1", "1/2"}

\* the pot ratios of POSTFLOP_SIZE_PRESETS (1/4, 1/3, 1/2, 2/3 pot and Pot), in
\* hundredths
POSTFLOP_SIZE_PRESETS == {25, 33, 50, 67, 100}

\* the sentinel stored as sizeBb of an all-in of unknown amount
AllInSentinel == -1

\* the amount, in BB, the pot calculation substitutes for the sentinel
AllInPlaceholderBb == 100

\* ----------------------------------------------------------------- inputs
\* blind levels a session starts with
BlindInputs == {"0.5/1"}
\* PREFLOP_SIZE_PRESETS values offered (2.5bb and All-in), in half BB
PreflopPresetInputs == {5, AllInSentinel}
\* POSTFLOP_SIZE_PRESETS ratios offered (1/2 pot), in hundredths
PotRatioInputs == {50}
\* numpad keys pressed in an ordinary session (entries "3", "33", ...)
NumpadKeyInputs == {"3"}
\* numpad keys pressed in a session about the free entry
NumpadEntryKeyInputs == {"0", "5", "."}
\* stackBb of the seats' table assignments: 0 stands for "no stackBb"
StackInputs == {0}
\* stackBb entered for the button (20bb) and for the big blind (2bb), in half BB
ButtonStackInputs == {0, 40}
BigBlindStackInputs == {0, 4}
\* the ranks and suits the user picks on the card pad, and the board slots
RankInputs == {"A", "K", "Q"}
SuitInputs == {"s"}
BoardSlots == {"flop0", "flop1", "flop2", "turn", "river"}
\* the table sizes the user picks while actions are recorded
ResizeInputs == {2, 3}
\* the table sizes the user picks and the players the user assigns ("": none)
TableSizeInputs == {2, 3, 4}
PlayerIdInputs == {"", "p1"}
\* tableSize of a stored hand: a 6-handed table, and 10, which no table has
StoredTableSizeInputs == {6, 10}
\* sizes of the called preflop raise of a stored hand (3bb and 4.5bb), in half BB
StoredRaiseInputs == {6, 9}

VARIABLES
  actions,           \* hand.actions
  tableSize,         \* hand.tableSize
  blind,             \* hand.blind
  stackBb,           \* tableAssignments[pos].stackBb, in half BB (0: absent)
  currentStreet,     \* HandEditor: currentStreet
  selectedPosition,  \* ActionInput: selectedPosition ("none" for null)
  selectedType,      \* ActionInput: selectedType ("none" for null)
  showNumpad,        \* ActionInput: showNumpad
  customSize,        \* ActionInput: customSize, the entry buffer, as a sequence of keys
  uuid,              \* number of ids drawn from uuidv4 so far
  timer,             \* ActionInput: the pending auto-advance timeout, as the street
                     \* its onNextStreet closure captured ("none": no timeout)
  mounted,           \* the editor page is shown
  tabs,              \* session parameter: the street tabs the user clicks
  presets,           \* session parameter: the pot-ratio presets the user clicks
  appendLimit,       \* session parameter: the bound on uuid
  keys,              \* session parameter: the numpad keys the user presses
  entryLimit,        \* session parameter: the bound on the entry's length
  history,           \* useUndoRedo instance driven on its own: history
  currentIndex,      \* useUndoRedo instance driven on its own: currentIndex
  maxHistory,        \* useUndoRedo instance driven on its own: options.maxHistory
  discarded,         \* auxiliary: the snapshots after the cursor that the last
                     \* operation of that instance removed from the history
  stored,            \* localStorage: the item of each of the three STORAGE_KEYS
  returned,          \* the value the last importAllData call returned ("none": no call)
  document,          \* auxiliary: the text handed to the last importAllData call
  heroCards,         \* hand.heroCards ("": undefined)
  board,             \* hand.board
  opponentHands,     \* hand.opponentHands
  showdown,          \* hand.result.showdown
  heroPosition,      \* hand.heroPosition
  inputMode,         \* HandEditor: inputMode
  heroCardSlot,      \* HandEditor: heroCardSlot
  boardSlot,         \* HandEditor: boardSlot ("none" for null)
  opponentCardSlot,  \* HandEditor: opponentCardSlot (<<>> for null)
  selectedRank,      \* CardInput: selectedRank ("none" for null)
  tableAssignments,  \* hand.tableAssignments: isHero and playerId of each entry
  tableSizes,        \* session parameter: the table sizes the user picks
  status,            \* hand.status
  storedHand,        \* the hand of the editor's id in the hands collection, as
                     \* saveHand last wrote it
  routerTransition,  \* session parameter: the router wraps its state update in
                     \* startTransition (future.v7_startTransition)
  replaced,          \* auxiliary: the card the last card selection took out of
                     \* the slot it filled ("": the slot was empty)
  loadedWith         \* HandEditor: the setHand callback in the dependencies of the
                     \* initial-load effect's last run, told apart by the cursor
                     \* the callback captured

vars == <<actions, tableSize, blind, stackBb, currentStreet,
          selectedPosition, selectedType, showNumpad, customSize, uuid, timer,
          mounted, tabs, presets, appendLimit, keys, entryLimit,
          history, currentIndex, maxHistory, discarded,
            stored, returned, document,
          heroCards, board, opponentHands, showdown, heroPosition, inputMode,
          heroCardSlot, boardSlot, opponentCardSlot, selectedRank, replaced,
          tableAssignments, tableSizes, status, storedHand, routerTransition,
          loadedWith>>

\* the card slots of the hand and the state of the card pad
cards == <<heroCards, board, opponentHands, showdown, inputMode,
           heroCardSlot, boardSlot, opponentCardSlot, selectedRank, replaced>>

\* the seats of the hand
seating == <<tableAssignments, heroPosition, tableSizes>>

\* the hand's configuration, the session parameters and the useUndoRedo instance
\* driven on its own, none of which an action of the editor changes
config == <<tableSize, blind, stackBb, tabs, presets, appendLimit, keys, entryLimit,
            history, currentIndex, maxHistory, discarded,
            stored, returned, document, cards, seating,
            status, routerTransition, loadedWith>>

\* the variables of the action input and the session parameters
actionInput == <<actions, tableSize, blind, stackBb, currentStreet, selectedPosition,
                 selectedType, showNumpad, customSize, uuid, timer, mounted, tabs,
                 presets, appendLimit, keys, entryLimit>>

\* the variables of the editor, which no operation of the useUndoRedo instance
\* driven on its own changes
editor == <<actionInput, cards, seating, status, storedHand, routerTransition,
            loadedWith>>

\* ---------------------------------------------------------------- helpers
\* Array.prototype.includes
Includes(s, x) == \E i \in 1..Len(s) : s[i] = x

\* Array.prototype.indexOf (0-based, -1 when absent)
IndexOf(s, x) ==
  IF Includes(s, x)
    THEN (CHOOSE i \in 1..Len(s) : s[i] = x /\ \A j \in 1..(i - 1) : s[j] # x) - 1
    ELSE -1

\* actions.map((a) => a.position)
PositionsOf(s) == [i \in 1..Len(s) |-> s[i].position]

\* an Action's optional sizeBb field
HasSize(a) == "sizeBb" \in DOMAIN a

IsRaise(a) == a.type = "RAISE"
IsFold(a) == a.type = "FOLD"
IsAllInSentinel(a) == HasSize(a) /\ a.sizeBb = AllInSentinel

OnStreet(s, street) == SelectSeq(s, LAMBDA a : a.street = street)

RECURSIVE LatestFrom(_, _, _)
LatestFrom(s, i, latest) ==
  IF i > Len(s) THEN latest
  ELSE LatestFrom(s, i + 1, IF s[i].order > latest.order THEN s[i] ELSE latest)

\* s.reduce((latest, current) => current.order > latest.order ? current : latest)
LatestByOrder(s) == LatestFrom(s, 2, s[1])

RECURSIVE EarliestFrom(_, _, _)
EarliestFrom(s, i, earliest) ==
  IF i > Len(s) THEN earliest
  ELSE EarliestFrom(s, i + 1, IF s[i].order < earliest.order THEN s[i] ELSE earliest)

\* s.reduce((earliest, current) => current.order < earliest.order ? current : earliest)
EarliestByOrder(s) == EarliestFrom(s, 2, s[1])

\* insertion of a into the order-sorted sequence s, after every element of equal order
InsertByOrder(s, a) ==
  LET k == Cardinality({i \in 1..Len(s) : s[i].order <= a.order})
  IN  SubSeq(s, 1, k) \o <<a>> \o SubSeq(s, k + 1, Len(s))

RECURSIVE SortFrom(_, _, _)
SortFrom(s, i, acc) ==
  IF i > Len(s) THEN acc ELSE SortFrom(s, i + 1, InsertByOrder(acc, s[i]))

\* [...s].sort((a, b) => a.order - b.order), a stable sort
SortByOrder(s) == SortFrom(s, 1, <<>>)

Max(a, b) == IF a >= b THEN a ELSE b
Min(a, b) == IF a <= b THEN a ELSE b

\* ---------------------------------------------------------- blind amounts
\* currency amounts in half units
getBBSize(b) == CASE b = "0.5/1" -> 2 [] b = "1/1" -> 2 [] b = "1/2" -> 4 [] OTHER -> 4

getSBSize(b) == CASE b = "0.5/1" -> 1 [] b = "1/1" -> 2 [] b = "1/2" -> 2 [] OTHER -> 2

\* sbSize / bbSize, in half BB
SBinBB(b) == (2 * getSBSize(b)) \div getBBSize(b)

\* ------------------------------------------------- ActionInput derivations
\* PREFLOP_ACTION_ORDER[tableSize] || []
preflopOrder(n) == IF n \in DOMAIN PREFLOP_ACTION_ORDER THEN PREFLOP_ACTION_ORDER[n] ELSE <<>>

\* the table size whose position set replaces a missing one
FallbackTableSize == 6

\* POSITIONS_BY_TABLE_SIZE[tableSize] || POSITIONS_BY_TABLE_SIZE[6]
positions(n) ==
  IF n \in DOMAIN POSITIONS_BY_TABLE_SIZE THEN POSITIONS_BY_TABLE_SIZE[n]
  ELSE POSITIONS_BY_TABLE_SIZE[FallbackTableSize]

\* POSTFLOP_ACTION_ORDER[tableSize] || []
postflopOrder(n) == IF n \in DOMAIN POSTFLOP_ACTION_ORDER THEN POSTFLOP_ACTION_ORDER[n] ELSE <<>>

preflopActions(acts) == OnStreet(acts, "preflop")

\* seats kept by the resolver when a preflop raise exists
InHandSet(pfActions) ==
  LET raises == SelectSeq(pfActions, IsRaise)
      lastRaise == LatestByOrder(raises)
  IN  {lastRaise.position}
        \cup {pfActions[i].position : i \in
                {j \in 1..Len(pfActions) :
                   /\ pfActions[j].order > lastRaise.order
                   /\ \/ pfActions[j].type = "CALL"
                      \/ (IsRaise(pfActions[j]) /\ IsAllInSentinel(pfActions[j]))}}
        \cup {pfActions[i].position : i \in
                {j \in 1..Len(pfActions) : IsAllInSentinel(pfActions[j])}}

\* variant of playersInHand that takes the earliest raise for the last raise
playersInHand_EarliestRaise(pfActions, postOrder) ==
  IF Len(SelectSeq(pfActions, IsRaise)) = 0
    THEN postOrder
    ELSE LET raises == SelectSeq(pfActions, IsRaise)
             lastRaise == EarliestByOrder(raises)
             inHand ==
               {lastRaise.position}
                 \cup {pfActions[i].position : i \in
                         {j \in 1..Len(pfActions) :
                            /\ pfActions[j].order > lastRaise.order
                            /\ pfActions[j].type = "CALL"}}
                 \cup {pfActions[i].position : i \in
                         {j \in 1..Len(pfActions) : IsAllInSentinel(pfActions[j])}}
         IN  SelectSeq(postOrder, LAMBDA pos : pos \in inHand)

playersInHand(pfActions, postOrder) ==
  IF Len(SelectSeq(pfActions, IsRaise)) = 0
    THEN postOrder
    ELSE SelectSeq(postOrder, LAMBDA pos : pos \in InHandSet(pfActions))

explicitlyFoldedPositions(acts) == PositionsOf(SelectSeq(acts, IsFold))

\* variant of implicitlyFoldedPositions without the hasExplicitAction test
implicitlyFoldedPositions_EverySeatBefore(isPreflop, pfActions, order) ==
  IF ~isPreflop THEN <<>>
  ELSE IF Len(SelectSeq(pfActions, IsRaise)) = 0 THEN <<>>
  ELSE LET firstRaiseAction == EarliestByOrder(SelectSeq(pfActions, IsRaise))
       IN  SubSeq(order, 1, IndexOf(order, firstRaiseAction.position))

implicitlyFoldedPositions(isPreflop, pfActions, order) ==
  IF ~isPreflop THEN <<>>
  ELSE IF Len(SelectSeq(pfActions, IsRaise)) = 0 THEN <<>>
  ELSE LET firstRaiseAction == EarliestByOrder(SelectSeq(pfActions, IsRaise))
           firstRaisePosIndex == IndexOf(order, firstRaiseAction.position)
           hasExplicitAction(pos) == \E i \in 1..Len(pfActions) : pfActions[i].position = pos
       IN  SelectSeq(SubSeq(order, 1, firstRaisePosIndex),
                     LAMBDA pos : ~hasExplicitAction(pos))

\* [...new Set([...explicit, ...implicit])], used only through includes()
allFoldedPositions(explicit, implicit) == explicit \o implicit

\* variant of availablePositions that filters the explicit folds only on preflop
availablePositions_ExplicitOnly(isPreflop, pfOrder, allFolded, inHand, explicit) ==
  IF isPreflop
    THEN SelectSeq(pfOrder, LAMBDA pos : ~Includes(explicit, pos))
    ELSE SelectSeq(inHand, LAMBDA pos : ~Includes(explicit, pos))

availablePositions(isPreflop, pfOrder, allFolded, inHand, explicit) ==
  IF isPreflop
    THEN SelectSeq(pfOrder, LAMBDA pos : ~Includes(allFolded, pos))
    ELSE SelectSeq(inHand, LAMBDA pos : ~Includes(explicit, pos))

\* ------------------------------------------------------------------- pot
StreetIndex(street) == IndexOf(streets, street)

\* Math.max(...Object.values(bets), 0)
MaxBet(bets) ==
  LET vals == {bets[p] : p \in DOMAIN bets} \cup {0}
  IN  CHOOSE m \in vals : \A v \in vals : v <= m

RECURSIVE SumBets(_, _)
SumBets(bets, ps) ==
  IF ps = {} THEN 0
  ELSE LET p == CHOOSE q \in ps : TRUE IN bets[p] + SumBets(bets, ps \ {p})

\* variant of ApplyStreetBets in which a fold clears the seat's entry of the map
RECURSIVE ApplyStreetBets_FoldClearsBet(_, _, _)
ApplyStreetBets_FoldClearsBet(streetActions, i, bets) ==
  IF i > Len(streetActions) THEN bets
  ELSE LET a == streetActions[i]
           next ==
             IF IsRaise(a) /\ HasSize(a)
               THEN [bets EXCEPT ![a.position] =
                       IF a.sizeBb = AllInSentinel THEN 2 * AllInPlaceholderBb ELSE a.sizeBb]
               ELSE IF a.type = "CALL"
                 THEN [bets EXCEPT ![a.position] = MaxBet(bets)]
                 ELSE IF a.type = "FOLD"
                   THEN [bets EXCEPT ![a.position] = 0]
                   ELSE bets
       IN  ApplyStreetBets_FoldClearsBet(streetActions, i + 1, next)

\* the forEach over one elapsed street's actions, updating the bets map
RECURSIVE ApplyStreetBets(_, _, _)
ApplyStreetBets(streetActions, i, bets) ==
  IF i > Len(streetActions) THEN bets
  ELSE LET a == streetActions[i]
           next ==
             IF IsRaise(a) /\ HasSize(a)
               THEN [bets EXCEPT ![a.position] =
                       IF a.sizeBb = AllInSentinel THEN 2 * AllInPlaceholderBb ELSE a.sizeBb]
               ELSE IF a.type = "CALL"
                 THEN [bets EXCEPT ![a.position] = MaxBet(bets)]
                 ELSE bets
       IN  ApplyStreetBets(streetActions, i + 1, next)

\* the loop over the streets before the current one; a seat absent from the
\* bets object counts 0 in the sum and in the maximum, as an entry of 0 does
RECURSIVE PotLoop(_, _, _, _, _)
PotLoop(acts, i, currentStreetIndex, pot, bets) ==
  IF i >= currentStreetIndex THEN pot
  ELSE LET after == ApplyStreetBets(OnStreet(acts, streets[i + 1]), 1, bets)
       IN  PotLoop(acts, i + 1, currentStreetIndex,
                   pot + SumBets(after, DOMAIN after),
                   [p \in DOMAIN after |-> 0])

\* the bets map before preflop: bets['SB'] (tables of 3 or more) and bets['BB']
initialBets(n, b) ==
  [p \in Position |->
     IF p = "SB" /\ n >= 3 THEN SBinBB(b)
     ELSE IF p = "BB" THEN 2 ELSE 0]

\* variant of potSize whose loop also adds the bets of the current street
potSize_CountsCurrentStreet(acts, street, n, b) ==
  LET hasSB == n >= 3
      seed == (IF hasSB THEN SBinBB(b) ELSE 0) + 2
  IN  PotLoop(acts, 0, StreetIndex(street) + 1, seed, initialBets(n, b))

\* pot in half BB
potSize(acts, street, n, b) ==
  LET hasSB == n >= 3
      seed == (IF hasSB THEN SBinBB(b) ELSE 0) + 2
  IN  PotLoop(acts, 0, StreetIndex(street), seed, initialBets(n, b))

\* ---------------------------------------------------------- all-in sizing
\* the forEach of getRemainingStack over all actions: the seat's "spent" amount
RECURSIVE SpentFrom(_, _, _, _)
SpentFrom(acts, pos, i, spent) ==
  IF i > Len(acts) THEN spent
  ELSE LET a == acts[i]
           priorRaises == SelectSeq(acts, LAMBDA pa :
                            pa.order < a.order /\ pa.street = a.street /\ IsRaise(pa))
           next ==
             IF a.position = pos /\ HasSize(a) /\ a.sizeBb > 0 THEN a.sizeBb
             ELSE IF a.position = pos /\ a.type = "CALL"
                     /\ Len(priorRaises) > 0
                     /\ HasSize(priorRaises[Len(priorRaises)])
                     /\ priorRaises[Len(priorRaises)].sizeBb > 0
               THEN priorRaises[Len(priorRaises)].sizeBb
               ELSE spent
       IN  SpentFrom(acts, pos, i + 1, next)

\* variant of getRemainingStack without the Math.max(0, ...) floor
getRemainingStack_NoFloor(acts, stack, pos, n, b) ==
  IF stack[pos] = 0 THEN <<>>
  ELSE LET blindSpent == IF pos = "SB" /\ n >= 3 THEN SBinBB(b)
                         ELSE IF pos = "BB" THEN 2 ELSE 0
       IN  <<stack[pos] - SpentFrom(acts, pos, 1, blindSpent)>>

\* <<>> for undefined, <<x>> for the remaining stack x
getRemainingStack(acts, stack, pos, n, b) ==
  IF stack[pos] = 0 THEN <<>>
  ELSE LET blindSpent == IF pos = "SB" /\ n >= 3 THEN SBinBB(b)
                         ELSE IF pos = "BB" THEN 2 ELSE 0
       IN  <<Max(0, stack[pos] - SpentFrom(acts, pos, 1, blindSpent))>>

\* ------------------------------------------------------ street completion
\* variant of isStreetComplete without the empty-street return: a street is
\* complete unless its latest action is a raise of determinate size
isStreetComplete_NoEmptyGuard(streetActs, available, explicit, isPreflop, pfOrder, allFolded) ==
  IF Len(streetActs) = 0 THEN TRUE
  ELSE LET lastAction == LatestByOrder(streetActs)
       IN  ~(IsRaise(lastAction) /\ ~IsAllInSentinel(lastAction))

\* variant of isStreetComplete whose fold-to-one test does not require a raise
isStreetComplete_FoldToOneWithoutRaise(streetActs, available, explicit, isPreflop, pfOrder, allFolded) ==
  IF Len(streetActs) = 0 THEN FALSE
  ELSE
    LET streetRaises == SelectSeq(streetActs, IsRaise)
        lastAction == LatestByOrder(streetActs)
    IN
    IF IsRaise(lastAction) /\ ~IsAllInSentinel(lastAction) THEN FALSE
    ELSE IF isPreflop THEN
      IF Len(streetRaises) > 0 THEN
        LET sortedRaises == SortByOrder(streetRaises)
            closedByCall ==
              /\ lastAction.type = "CALL"
              /\ IF Len(streetRaises) = 1
                   THEN lastAction.position = "BB"
                   ELSE lastAction.position = sortedRaises[Len(sortedRaises) - 1].position
            foldedInStreet == PositionsOf(SelectSeq(streetActs, IsFold))
            activePlayers == SelectSeq(pfOrder, LAMBDA p :
                               ~Includes(allFolded, p) /\ ~Includes(foldedInStreet, p))
        IN  closedByCall \/ Len(activePlayers) = 1
      ELSE Len(SelectSeq(pfOrder, LAMBDA p :
                 ~Includes(allFolded, p)
                 /\ ~Includes(PositionsOf(SelectSeq(streetActs, IsFold)), p))) = 1
    ELSE
      IF Len(streetRaises) > 0 THEN
        LET lastRaise == LatestByOrder(streetRaises)
            otherActivePlayers == SelectSeq(available, LAMBDA p : p # lastRaise.position)
            playersActedAfterRaise ==
              PositionsOf(SelectSeq(streetActs, LAMBDA a : a.order > lastRaise.order))
            allOthersActed ==
              \A i \in 1..Len(otherActivePlayers) :
                 \/ Includes(playersActedAfterRaise, otherActivePlayers[i])
                 \/ Includes(explicit, otherActivePlayers[i])
            lastActionIsNotRaise == ~IsRaise(lastAction) \/ IsAllInSentinel(lastAction)
        IN  allOthersActed /\ lastActionIsNotRaise
      ELSE
        LET checkCount == Len(SelectSeq(streetActs, LAMBDA a : a.type = "CHECK"))
        IN  checkCount >= Len(available)

isStreetComplete(streetActs, available, explicit, isPreflop, pfOrder, allFolded) ==
  IF Len(streetActs) = 0 THEN FALSE
  ELSE
    LET streetRaises == SelectSeq(streetActs, IsRaise)
        lastAction == LatestByOrder(streetActs)
    IN
    IF IsRaise(lastAction) /\ ~IsAllInSentinel(lastAction) THEN FALSE
    ELSE IF isPreflop THEN
      IF Len(streetRaises) > 0 THEN
        LET sortedRaises == SortByOrder(streetRaises)
            closedByCall ==
              /\ lastAction.type = "CALL"
              /\ IF Len(streetRaises) = 1
                   THEN lastAction.position = "BB"
                   ELSE lastAction.position = sortedRaises[Len(sortedRaises) - 1].position
            foldedInStreet == PositionsOf(SelectSeq(streetActs, IsFold))
            activePlayers == SelectSeq(pfOrder, LAMBDA p :
                               ~Includes(allFolded, p) /\ ~Includes(foldedInStreet, p))
        IN  closedByCall \/ Len(activePlayers) = 1
      ELSE FALSE
    ELSE
      IF Len(streetRaises) > 0 THEN
        LET lastRaise == LatestByOrder(streetRaises)
            otherActivePlayers == SelectSeq(available, LAMBDA p : p # lastRaise.position)
            playersActedAfterRaise ==
              PositionsOf(SelectSeq(streetActs, LAMBDA a : a.order > lastRaise.order))
            allOthersActed ==
              \A i \in 1..Len(otherActivePlayers) :
                 \/ Includes(playersActedAfterRaise, otherActivePlayers[i])
                 \/ Includes(explicit, otherActivePlayers[i])
            lastActionIsNotRaise == ~IsRaise(lastAction) \/ IsAllInSentinel(lastAction)
        IN  allOthersActed /\ lastActionIsNotRaise
      ELSE
        LET checkCount == Len(SelectSeq(streetActs, LAMBDA a : a.type = "CHECK"))
        IN  checkCount >= Len(available)

\* ------------------------------------------------------------ action labels
\* String.prototype.toLowerCase on an ActionType
toLowerCase(type) ==
  CASE type = "FOLD" -> "fold" [] type = "CHECK" -> "check" [] type = "CALL" -> "call"
    [] type = "BET" -> "bet" [] type = "RAISE" -> "raise" [] type = "ALLIN" -> "allin"

\* the label of the clipboard text
getRaiseLabel(action, allActions) ==
  IF action.type # "RAISE" THEN toLowerCase(action.type)
  ELSE LET streetActions == SelectSeq(allActions, LAMBDA a :
                              a.street = action.street /\ a.order <= action.order)
           raiseCount == Len(SelectSeq(streetActions, IsRaise))
       IN  IF action.street = "preflop"
             THEN CASE raiseCount = 1 -> "open"
                    [] raiseCount = 2 -> "3bet"
                    [] raiseCount = 3 -> "4bet"
                    [] raiseCount = 4 -> "5bet"
                    [] OTHER -> ToString(raiseCount + 1) \o "bet"
             ELSE IF raiseCount = 1 THEN "bet" ELSE "raise"

\* the label of the action chips of ActionInput
getActionDisplayLabel(action, acts) ==
  IF action.type = "RAISE"
    THEN LET priorRaises == Len(SelectSeq(acts, LAMBDA a :
                               a.street = action.street /\ IsRaise(a) /\ a.order < action.order))
         IN  IF action.street = "preflop"
               THEN CASE priorRaises = 0 -> "open"
                      [] priorRaises = 1 -> "3bet"
                      [] priorRaises = 2 -> "4bet"
                      [] OTHER -> ToString(priorRaises + 2) \o "bet"
               ELSE IF priorRaises = 0 THEN "bet" ELSE "raise"
    ELSE toLowerCase(action.type)

\* ------------------------------------------------ HandEditor derivations
\* HandEditor.playersInHand: the seats offered for winner selection and
\* opponent-hand entry
editorPlayersInHand(acts, n) ==
  LET pfActions == OnStreet(acts, "preflop")
      raises == SelectSeq(pfActions, IsRaise)
      lastRaise == LatestByOrder(raises)
      inHand ==
        {lastRaise.position}
          \cup {pfActions[i].position : i \in
                  {j \in 1..Len(pfActions) :
                     /\ pfActions[j].order > lastRaise.order
                     /\ (pfActions[j].type = "CALL" \/ IsAllInSentinel(pfActions[j]))}}
          \cup {pfActions[i].position : i \in
                  {j \in 1..Len(pfActions) : IsAllInSentinel(pfActions[j])}}
      foldedPositions == PositionsOf(SelectSeq(acts, IsFold))
  IN  IF Len(raises) = 0
        THEN postflopOrder(n)
        ELSE SelectSeq(postflopOrder(n), LAMBDA pos :
               pos \in inHand /\ ~Includes(foldedPositions, pos))

\* ------------------------------------------- derived values of the state
IsPreflop == currentStreet = "preflop"
PreflopActions == preflopActions(actions)
PlayersInHand == playersInHand(PreflopActions, postflopOrder(tableSize))
ExplicitlyFolded == explicitlyFoldedPositions(actions)
ImplicitlyFolded == implicitlyFoldedPositions(IsPreflop, PreflopActions, preflopOrder(tableSize))
AllFolded == allFoldedPositions(ExplicitlyFolded, ImplicitlyFolded)
Available ==
  availablePositions(IsPreflop, preflopOrder(tableSize), AllFolded, PlayersInHand, ExplicitlyFolded)
PotSize == potSize(actions, currentStreet, tableSize, blind)
CurrentStreetActions == OnStreet(actions, currentStreet)
currentStreetRaiseCount == Len(SelectSeq(CurrentStreetActions, IsRaise))
StreetComplete ==
  isStreetComplete(CurrentStreetActions, Available, ExplicitlyFolded, IsPreflop,
                   preflopOrder(tableSize), AllFolded)
\* nextStreetName is null on the river
HasNextStreet == StreetIndex(currentStreet) < Len(streets) - 1
EditorPlayersInHand == editorPlayersInHand(actions, tableSize)
isThreeBetOrMore == IsPreflop /\ currentStreetRaiseCount >= 1
\* sizePresets.length > 0
HasSizePresets == ~isThreeBetOrMore

\* ------------------------------------------------------------ numpad entry
\* the value of a digit key
DigitValue(key) ==
  CASE key = "0" -> 0 [] key = "1" -> 1 [] key = "2" -> 2 [] key = "3" -> 3
    [] key = "4" -> 4 [] key = "5" -> 5 [] key = "6" -> 6 [] key = "7" -> 7
    [] key = "8" -> 8 [] key = "9" -> 9

\* the decimal value of a sequence of digit keys
RECURSIVE DigitsValue(_)
DigitsValue(digits) ==
  IF Len(digits) = 0 THEN 0
  ELSE 10 * DigitsValue(SubSeq(digits, 1, Len(digits) - 1)) + DigitValue(digits[Len(digits)])

\* parseFloat of an entry made of digit keys and at most one ".", with at most
\* one decimal digit, 0 or 5: <<>> for NaN (no digit at all), <<v>> for the
\* value v in half BB
parseFloat(entry) ==
  LET dot == IndexOf(entry, ".") + 1
      whole == IF dot = 0 THEN entry ELSE SubSeq(entry, 1, dot - 1)
      fraction == IF dot = 0 THEN <<>> ELSE SubSeq(entry, dot + 1, Len(entry))
  IN  IF Len(whole) = 0 /\ Len(fraction) = 0 THEN <<>>
      ELSE <<2 * DigitsValue(whole)
             + (IF Len(fraction) > 0 /\ fraction[1] = "5" THEN 1 ELSE 0)>>

\* -------------------------------------------------------------- undo/redo
\* a useUndoRedo instance nobody calls: one snapshot, cursor 0
IdleHook ==
  /\ history = <<0>>
  /\ currentIndex = 0
  /\ maxHistory = 1
  /\ discarded = 0

\* the three collections as first stored, no import called
IdleStorage ==
  /\ stored = [k \in {"players", "hands", "settings"} |-> "0"]
  /\ returned = "none"
  /\ document = <<>>

\* the snapshots T of the instance driven on its own
SnapshotInputs == {0, 1, 2}

\* the value of an array read past its end (undefined), and of arithmetic on it
Undefined == -1

\* an updater function passed to setState
Updater(prev) == IF prev = Undefined THEN Undefined ELSE (prev + 1) % 3

\* prevHistory[currentIndex]
EntryAt(prevHistory, index) ==
  IF index < Len(prevHistory) THEN prevHistory[index + 1] ELSE Undefined

\* state = history[currentIndex]
state == EntryAt(history, currentIndex)
canUndo == currentIndex > 0
canRedo == currentIndex < Len(history) - 1

\* the history setState builds: slice(0, currentIndex + 1), push, and shift when
\* longer than maxHistory
PushedOnto(prevHistory, nextState) ==
  LET newHistory == Append(SubSeq(prevHistory, 1, Min(Len(prevHistory), currentIndex + 1)),
                           nextState)
  IN  IF Len(newHistory) > maxHistory THEN Tail(newHistory) ELSE newHistory

PushedHistory(nextState) == PushedOnto(history, nextState)

\* variant of setState that pushes without dropping the snapshots after the cursor
setState_KeepsFuture ==
  /\ \E nextState \in SnapshotInputs \cup {Updater(state)} :
       LET newHistory == Append(history, nextState)
       IN  history' = IF Len(newHistory) > maxHistory THEN Tail(newHistory) ELSE newHistory
  /\ currentIndex' = IF currentIndex + 1 >= maxHistory THEN maxHistory - 1
                      ELSE currentIndex + 1
  /\ discarded' = 0
  /\ UNCHANGED <<editor, stored, returned, document, maxHistory>>

\* setState(newState), newState a value or an updater applied to the current state
setState ==
  /\ \E nextState \in SnapshotInputs \cup {Updater(state)} :
       history' = PushedHistory(nextState)
  /\ currentIndex' = IF currentIndex + 1 >= maxHistory THEN maxHistory - 1
                      ELSE currentIndex + 1
  /\ discarded' = Len(history) - (currentIndex + 1)
  /\ UNCHANGED <<editor, stored, returned, document, maxHistory>>

undo ==
  /\ currentIndex' = Max(0, currentIndex - 1)
  /\ discarded' = 0
  /\ UNCHANGED <<editor, stored, returned, document, history, maxHistory>>

\* variant of redo without the Math.min clamp
redo_NoClamp ==
  /\ currentIndex' = currentIndex + 1
  /\ currentIndex' <= MaxHistory
  /\ discarded' = 0
  /\ UNCHANGED <<editor, stored, returned, document, history, maxHistory>>

redo ==
  /\ currentIndex' = Min(Len(history) - 1, currentIndex + 1)
  /\ discarded' = 0
  /\ UNCHANGED <<editor, stored, returned, document, history, maxHistory>>

clearHistory ==
  /\ history' = <<state>>
  /\ currentIndex' = 0
  /\ discarded' = Len(history) - (currentIndex + 1)
  /\ UNCHANGED <<editor, stored, returned, document, maxHistory>>

\* the argument of a setState call that is a function of the previous state
UpdaterCall == 3

\* the arguments of the setState calls made between two renders
BatchInputs ==
  UNION {[1..n -> SnapshotInputs \cup {UpdaterCall}] : n \in 2..MaxBatch}

\* the queued setHistory updaters run in order, each on the history the one before
\* returned and each with the cursor its closure captured
RECURSIVE QueuedHistory(_, _)
QueuedHistory(prevHistory, calls) ==
  IF calls = <<>> THEN prevHistory
  ELSE LET current == EntryAt(prevHistory, currentIndex)
           nextState == IF calls[1] = UpdaterCall THEN Updater(current) ELSE calls[1]
       IN  QueuedHistory(PushedOnto(prevHistory, nextState), Tail(calls))

\* the queued setCurrentIndex updaters run in order on the previous value
RECURSIVE QueuedIndex(_, _)
QueuedIndex(prev, n) ==
  IF n = 0 THEN prev
  ELSE QueuedIndex(IF prev + 1 >= maxHistory THEN maxHistory - 1 ELSE prev + 1, n - 1)

\* setState is called once per element of calls before the next render, every call
\* through the callback of the same render
setStateBatch(calls) ==
  /\ history' = QueuedHistory(history, calls)
  /\ currentIndex' = QueuedIndex(currentIndex, Len(calls))
  /\ discarded' = Len(history) - (currentIndex + 1)
  /\ UNCHANGED <<editor, stored, returned, document, maxHistory>>

\* ------------------------------------------------------------ bulk import
\* the variables of the useUndoRedo instance
hook == <<history, currentIndex, maxHistory, discarded>>

\* the text of a document is a sequence of tokens: "{", "}", "null", and one
\* token per member, naming its key and its value
MemberTokens ==
  {"players:[1]", "players:{}", "hands:[1]", "settings:{1}"}

MemberKey(token) ==
  CASE token \in {"players:[1]", "players:{}"} -> "players"
    [] token = "hands:[1]" -> "hands"
    [] token = "settings:{1}" -> "settings"

\* Array.isArray of the member's value
MemberIsArray(token) ==
  token \in {"players:[1]", "hands:[1]"}

\* the member's value as the item that setItem stores for it
MemberItem(token) ==
  CASE token \in {"players:[1]", "hands:[1]", "settings:{1}"} -> "1"
    [] token = "players:{}" -> "{}"

\* the member lists of up to n members
RECURSIVE MemberLists(_)
MemberLists(n) ==
  IF n = 0 THEN {<<>>}
  ELSE LET shorter == MemberLists(n - 1)
       IN  shorter \cup {Append(s, m) : s \in shorter, m \in MemberTokens}

\* the documents handed to importAllData: objects, objects cut off before the
\* closing brace, the text null, a lone closing brace and the empty text
DocumentInputs ==
  {<<"{">> \o s \o <<"}">> : s \in MemberLists(MaxMembers)}
    \cup {<<"{">> \o s : s \in MemberLists(MaxMembers)}
    \cup {<<"null">>, <<"}">>, <<>>}

\* JSON.parse: <<>> when it throws a SyntaxError, <<"null">> for null, and for an
\* object <<members>>, its members in document order
JSONparse(jsonString) ==
  IF jsonString = <<"null">> THEN <<"null">>
  ELSE IF /\ Len(jsonString) >= 2
          /\ jsonString[1] = "{"
          /\ jsonString[Len(jsonString)] = "}"
          /\ \A i \in 2..(Len(jsonString) - 1) : jsonString[i] \in MemberTokens
    THEN <<SubSeq(jsonString, 2, Len(jsonString) - 1)>>
    ELSE <<>>

\* data[key]: the last member of that key, <<>> when undefined
MemberOf(members, key) ==
  LET idx == {i \in 1..Len(members) : MemberKey(members[i]) = key}
  IN  IF idx = {} THEN <<>>
      ELSE <<members[CHOOSE i \in idx : \A j \in idx : j <= i]>>

\* the store after the three guarded saves of importAllData
ImportedStore(members) ==
  [k \in {"players", "hands", "settings"} |->
     LET m == MemberOf(members, k)
     IN  IF m = <<>> THEN stored[k]
         ELSE IF k \in {"players", "hands"} /\ ~MemberIsArray(m[1]) THEN stored[k]
         ELSE MemberItem(m[1])]

\* variant of importAllData that saves the members it has read from the text
\* before the parse of the whole document has ended
importAllData_SavesWhileParsing ==
  /\ \E jsonString \in DocumentInputs :
       LET data == JSONparse(jsonString)
           read == SelectSeq(jsonString, LAMBDA tok : tok \in MemberTokens)
       IN  /\ document' = jsonString
           /\ IF data = <<>> \/ data = <<"null">>
                THEN /\ returned' = "false"
                     /\ stored' = ImportedStore(read)
                ELSE /\ returned' = "true"
                     /\ stored' = ImportedStore(data[1])
  /\ UNCHANGED <<editor, hook>>

\* importAllData(jsonString): a SyntaxError of JSON.parse, or the TypeError of
\* reading data.players of null, is caught before any save
importAllData ==
  /\ \E jsonString \in DocumentInputs :
       LET data == JSONparse(jsonString)
       IN  /\ document' = jsonString
           /\ IF data = <<>> \/ data = <<"null">>
                THEN /\ returned' = "false"
                     /\ stored' = stored
                ELSE /\ returned' = "true"
                     /\ stored' = ImportedStore(data[1])
  /\ UNCHANGED <<editor, hook>>

\* clearAllData: the three items are removed
clearAllData ==
  /\ stored' = [k \in {"players", "hands", "settings"} |-> "absent"]
  /\ returned' = "none"
  /\ document' = <<>>
  /\ UNCHANGED <<editor, hook>>

\* ---------------------------------------------------------------- editor
\* the auto-advance effect's timeout for the rendered state: scheduled, with the
\* onNextStreet closure of that render, while isStreetComplete && nextStreetName
Scheduled == IF mounted /\ StreetComplete /\ HasNextStreet THEN currentStreet ELSE "none"

\* variant of autoAdvanceEffect without the cleanup: a pending timeout is kept
autoAdvanceEffect_NoCleanup ==
  /\ mounted' = mounted
  /\ timer' = IF timer # "none" THEN timer ELSE Scheduled'

\* a render of HandEditor re-creates onNextStreet, so the effect's cleanup clears
\* the pending timeout and the effect schedules anew for the rendered state
autoAdvanceEffect ==
  /\ mounted' = mounted
  /\ timer' = Scheduled'

\* the Hand the editor holds
hand ==
  [status |-> status, tableSize |-> tableSize, blind |-> blind,
   heroPosition |-> heroPosition, heroCards |-> heroCards,
   tableAssignments |-> tableAssignments, stackBb |-> stackBb, board |-> board,
   actions |-> actions, showdown |-> showdown, opponentHands |-> opponentHands]

\* the auto-save effect of a render of HandEditor: saveHand(hand) when hand changed
autoSaveEffect ==
  storedHand' = IF mounted' /\ hand' # hand THEN hand' ELSE storedHand

\* a render of ActionInput alone leaves the effects' dependencies as they were
localRender == UNCHANGED <<timer, mounted, storedHand>>

\* a hand as created and saved, the router's flag not set
IdleSave ==
  /\ status = "draft"
  /\ storedHand = hand
  /\ routerTransition = FALSE
  /\ loadedWith = 0

\* ------------------------------------------------------------- card entry
\* the card state of a new hand, no slot being filled
IdleCards ==
  /\ heroCards = <<"", "">>
  /\ board = [flop |-> <<"", "", "">>, turn |-> "", river |-> ""]
  /\ opponentHands = <<>>
  /\ showdown = FALSE
  /\ inputMode = "none"
  /\ heroCardSlot = 0
  /\ boardSlot = "none"
  /\ opponentCardSlot = <<>>
  /\ selectedRank = "none"
  /\ replaced = ""

\* the variables that no card operation changes
besideCards == <<actions, tableSize, blind, stackBb, currentStreet, selectedPosition,
                 selectedType, showNumpad, customSize, uuid, tabs, presets, appendLimit,
                 keys, entryLimit, hook, stored, returned, document, seating,
                 status, routerTransition, loadedWith>>

\* `${rank}${suit}`
CardOf(rank, suit) == rank \o suit

\* hand.opponentHands[pos] || [undefined, undefined]
OpponentCardsOf(hands, pos) == IF pos \in DOMAIN hands THEN hands[pos] ELSE <<"", "">>

\* variant of getUsedCards that leaves the opponents' hands out
getUsedCards_WithoutOpponents ==
  {heroCards[1], heroCards[2], board.flop[1], board.flop[2], board.flop[3],
   board.turn, board.river} \ {""}

\* getUsedCards: the cards of the filled slots
getUsedCards ==
  ({heroCards[1], heroCards[2], board.flop[1], board.flop[2], board.flop[3],
    board.turn, board.river}
     \cup UNION {{opponentHands[p][1], opponentHands[p][2]} : p \in DOMAIN opponentHands})
    \ {""}

\* CardInput.isCardUsed
isCardUsed(rank, suit) == CardOf(rank, suit) \in getUsedCards

\* CardInput.isRankFullyUsed
isRankFullyUsed(rank) == \A i \in 1..Len(SUITS) : isCardUsed(rank, SUITS[i])

\* the card pad is shown; CardInput's selectedRank lasts while it is
CardInputShown == mounted /\ inputMode # "none"

\* the seats whose cards the showdown section offers
OpponentSeats ==
  IF showdown
    THEN {p \in Position :
            /\ Includes(playersInHand(preflopActions(actions), postflopOrder(tableSize)), p)
            /\ p # heroPosition}
    ELSE {}

handleHeroCardClick ==
  /\ mounted
  /\ \E slot \in {0, 1} :
       /\ inputMode' = "heroCard"
       /\ heroCardSlot' = slot
       /\ boardSlot' = "none"
       /\ opponentCardSlot' = <<>>
  /\ UNCHANGED <<heroCards, board, opponentHands, showdown, selectedRank, replaced,
                 besideCards>>
  /\ autoAdvanceEffect
  /\ autoSaveEffect

handleOpponentCardClick ==
  /\ mounted
  /\ \E position \in OpponentSeats, slot \in {0, 1} :
       /\ inputMode' = "opponentCard"
       /\ opponentCardSlot' = <<[position |-> position, slot |-> slot]>>
       /\ boardSlot' = "none"
  /\ UNCHANGED <<heroCards, board, opponentHands, showdown, heroCardSlot, selectedRank,
                 replaced,
                 besideCards>>
  /\ autoAdvanceEffect
  /\ autoSaveEffect

\* BoardInput.handleSlotClick, then handleBoardSlotSelect: a click on the selected
\* slot closes the pad (CardInput unmounts and loses its selectedRank)
handleBoardSlotSelect ==
  /\ mounted
  /\ \E slot \in BoardSlots :
       IF boardSlot = slot
         THEN /\ boardSlot' = "none"
              /\ inputMode' = "none"
              /\ selectedRank' = "none"
         ELSE /\ boardSlot' = slot
              /\ inputMode' = "board"
              /\ selectedRank' = selectedRank
  /\ UNCHANGED <<heroCards, board, opponentHands, showdown, heroCardSlot, opponentCardSlot,
                 replaced,
                 besideCards>>
  /\ autoAdvanceEffect
  /\ autoSaveEffect

handleShowdownToggle ==
  /\ mounted
  /\ showdown' = ~showdown
  /\ UNCHANGED <<heroCards, board, opponentHands, inputMode, heroCardSlot, boardSlot,
                 opponentCardSlot, selectedRank, replaced,
                 besideCards>>
  /\ autoAdvanceEffect
  /\ autoSaveEffect

handleRankClick ==
  /\ CardInputShown
  /\ \E rank \in RankInputs :
       /\ ~isRankFullyUsed(rank)
       /\ selectedRank' = rank
  /\ UNCHANGED <<heroCards, board, opponentHands, showdown, inputMode, heroCardSlot,
                 boardSlot, opponentCardSlot, replaced,
                 besideCards>>
  /\ localRender

handleCancelRank ==
  /\ CardInputShown
  /\ selectedRank # "none"
  /\ selectedRank' = "none"
  /\ UNCHANGED <<heroCards, board, opponentHands, showdown, inputMode, heroCardSlot,
                 boardSlot, opponentCardSlot, replaced,
                 besideCards>>
  /\ localRender

\* handleCardSelect(card): the slot named by inputMode takes the card
handleCardSelect(card) ==
  CASE inputMode = "heroCard" ->
         /\ heroCards' = [heroCards EXCEPT ![heroCardSlot + 1] = card]
         /\ replaced' = heroCards[heroCardSlot + 1]
         /\ IF heroCardSlot = 0 /\ heroCards[2] = ""
              THEN heroCardSlot' = 1 /\ inputMode' = inputMode
              ELSE heroCardSlot' = heroCardSlot /\ inputMode' = "none"
         /\ UNCHANGED <<board, opponentHands, boardSlot, opponentCardSlot>>
    [] inputMode = "board" /\ boardSlot # "none" ->
         /\ board' = CASE boardSlot = "flop0" -> [board EXCEPT !.flop[1] = card]
                       [] boardSlot = "flop1" -> [board EXCEPT !.flop[2] = card]
                       [] boardSlot = "flop2" -> [board EXCEPT !.flop[3] = card]
                       [] boardSlot = "turn" -> [board EXCEPT !.turn = card]
                       [] boardSlot = "river" -> [board EXCEPT !.river = card]
         /\ replaced' = CASE boardSlot = "flop0" -> board.flop[1]
                          [] boardSlot = "flop1" -> board.flop[2]
                          [] boardSlot = "flop2" -> board.flop[3]
                          [] boardSlot = "turn" -> board.turn
                          [] boardSlot = "river" -> board.river
         /\ boardSlot' = "none"
         /\ inputMode' = "none"
         /\ UNCHANGED <<heroCards, opponentHands, heroCardSlot, opponentCardSlot>>
    [] inputMode = "opponentCard" /\ opponentCardSlot # <<>> ->
         LET pos == opponentCardSlot[1].position
             slot == opponentCardSlot[1].slot
             currentCards == OpponentCardsOf(opponentHands, pos)
             newCards == [currentCards EXCEPT ![slot + 1] = card]
         IN  /\ replaced' = currentCards[slot + 1]
             /\ opponentHands' =
                  [p \in DOMAIN opponentHands \cup {pos} |->
                     IF p = pos THEN newCards ELSE opponentHands[p]]
             /\ IF slot = 0 /\ currentCards[2] = ""
                  THEN /\ opponentCardSlot' = <<[position |-> pos, slot |-> 1]>>
                       /\ inputMode' = inputMode
                  ELSE /\ opponentCardSlot' = <<>>
                       /\ inputMode' = "none"
             /\ UNCHANGED <<heroCards, board, heroCardSlot, boardSlot>>
    [] OTHER ->
         UNCHANGED <<heroCards, board, opponentHands, inputMode, heroCardSlot, boardSlot,
                     opponentCardSlot, replaced>>

\* CardInput.handleSuitClick(suit): the card of the selected rank goes to
\* onCardSelect, unless it is used
handleSuitClick ==
  /\ CardInputShown
  /\ selectedRank # "none"
  /\ \E suit \in SuitInputs :
       /\ ~isCardUsed(selectedRank, suit)
       /\ handleCardSelect(CardOf(selectedRank, suit))
  /\ selectedRank' = "none"
  /\ UNCHANGED <<showdown, besideCards>>
  /\ autoAdvanceEffect
  /\ autoSaveEffect

\* ------------------------------------------------------- table assignments
\* a TableAssignment without fields, {}
EmptyAssignment == [isHero |-> "undefined", playerId |-> ""]

\* the seats of a position list
SeatsOf(list) == {list[i] : i \in 1..Len(list)}

\* Object.fromEntries(positions.map((pos) => [pos, {}]))
NewAssignments(n) == [p \in SeatsOf(positions(n)) |-> EmptyAssignment]

\* the seats of a new hand: nobody assigned, the hero on the button
IdleSeats ==
  /\ tableAssignments = NewAssignments(tableSize)
  /\ heroPosition = "BTN"

\* the variables that no operation on the seats changes
besideSeats == <<actions, blind, currentStreet, selectedPosition, selectedType,
                 showNumpad, customSize, uuid, tabs, presets,
                 appendLimit, keys, entryLimit, tableSizes, hook, returned, document,
                 cards, status, routerTransition, loadedWith>>

\* saveSettings({ ...getSettings(), lastTableSize: size }): the settings item,
\* told apart by the table size it holds
SavedTableSize(size) == [stored EXCEPT !["settings"] = "lastTableSize:" \o ToString(size)]

\* variant of handleTableSizeChange that keeps every assignment of the hand,
\* those of the seats that left the table included
handleTableSizeChange_KeepsEverySeat ==
  /\ mounted
  /\ \E size \in tableSizes :
       LET newPositions == positions(size)
           kept == DOMAIN tableAssignments \cup SeatsOf(newPositions)
       IN  /\ tableAssignments' =
                [pos \in kept |->
                   IF pos \in DOMAIN tableAssignments THEN tableAssignments[pos]
                   ELSE EmptyAssignment]
           /\ heroPosition' = IF Includes(newPositions, heroPosition)
                                THEN heroPosition ELSE "BTN"
           /\ stored' = SavedTableSize(size)
           /\ tableSize' = size
           /\ stackBb' = stackBb
  /\ UNCHANGED besideSeats
  /\ autoAdvanceEffect
  /\ autoSaveEffect

\* handleTableSizeChange(size): the assignments of the seats of the new size, the
\* hero moved to the button when the hero's seat is not among them
handleTableSizeChange ==
  /\ mounted
  /\ \E size \in tableSizes :
       LET newPositions == positions(size)
       IN  /\ tableAssignments' =
                [pos \in SeatsOf(newPositions) |->
                   IF pos \in DOMAIN tableAssignments THEN tableAssignments[pos]
                   ELSE EmptyAssignment]
           /\ heroPosition' = IF Includes(newPositions, heroPosition)
                                THEN heroPosition ELSE "BTN"
           /\ stored' = SavedTableSize(size)
           /\ tableSize' = size
           /\ stackBb' = [pos \in Position |->
                            IF Includes(newPositions, pos) THEN stackBb[pos] ELSE 0]
  /\ UNCHANGED besideSeats
  /\ autoAdvanceEffect
  /\ autoSaveEffect

\* newAssignments[pos] of a spread copy: {} fields for a seat without an entry
AssignmentOf(pos) ==
  IF pos \in DOMAIN tableAssignments THEN tableAssignments[pos] ELSE EmptyAssignment

\* handleSetHero(pos), from the selector of a seat of the table
handleSetHero ==
  /\ mounted
  /\ \E pos \in SeatsOf(positions(tableSize)) :
       /\ tableAssignments' =
            [p \in DOMAIN tableAssignments \cup {pos} |->
               IF p = pos THEN [AssignmentOf(p) EXCEPT !.isHero = "true"]
               ELSE IF tableAssignments[p].isHero = "true"
                      THEN [tableAssignments[p] EXCEPT !.isHero = "false"]
                      ELSE tableAssignments[p]]
       /\ heroPosition' = pos
  /\ UNCHANGED <<tableSize, stackBb, stored, besideSeats>>
  /\ autoAdvanceEffect
  /\ autoSaveEffect

\* handlePlayerAssign(pos, playerId), from the selector of a seat of the table
handlePlayerAssign ==
  /\ mounted
  /\ \E pos \in SeatsOf(positions(tableSize)), playerId \in PlayerIdInputs :
       tableAssignments' =
         [p \in DOMAIN tableAssignments \cup {pos} |->
            IF p = pos THEN [AssignmentOf(p) EXCEPT !.playerId = playerId]
            ELSE tableAssignments[p]]
  /\ UNCHANGED <<tableSize, stackBb, stored, heroPosition, besideSeats>>
  /\ autoAdvanceEffect
  /\ autoSaveEffect

InitEditor(sizes, tabSet, limit) ==
  /\ actions = <<>>
  /\ tableSize \in sizes
  /\ tabs = tabSet
  /\ presets = PotRatioInputs
  /\ appendLimit = limit
  /\ blind \in BlindInputs
  /\ stackBb \in [Position -> StackInputs]
  /\ currentStreet = "preflop"
  /\ selectedPosition = "none"
  /\ selectedType = "none"
  /\ showNumpad = FALSE
  /\ customSize = <<>>
  /\ keys = NumpadKeyInputs
  /\ entryLimit = MaxEntry
  /\ IdleHook
  /\ IdleStorage
  /\ IdleCards
  /\ uuid = 0
  /\ timer = "none"
  /\ mounted = TRUE
  /\ IdleSeats
  /\ IdleSave
  /\ tableSizes = {}

\* resetSelection
ResetSelection ==
  /\ selectedPosition' = "none"
  /\ selectedType' = "none"
  /\ showNumpad' = FALSE
  /\ customSize' = <<>>

\* the Action built by the handlers: id from uuidv4, order: actions.length
NewAction(type) ==
  [id |-> uuid + 1, order |-> Len(actions), street |-> currentStreet,
   position |-> selectedPosition, type |-> type]

NewRaise(size) ==
  [id |-> uuid + 1, order |-> Len(actions), street |-> currentStreet,
   position |-> selectedPosition, type |-> "RAISE", sizeBb |-> size]

\* onAddAction(action) = handleAddAction, followed by resetSelection()
handleAddAction(action) ==
  /\ uuid < appendLimit
  /\ actions' = Append(actions, action)
  /\ uuid' = uuid + 1
  /\ ResetSelection
  /\ UNCHANGED <<config, currentStreet>>
  /\ autoAdvanceEffect
  /\ autoSaveEffect

\* a position chip is clicked
handlePositionSelect ==
  /\ mounted
  /\ selectedPosition = "none"
  /\ Len(Available) > 0
  /\ ~StreetComplete
  /\ \E i \in 1..Len(Available) : selectedPosition' = Available[i]
  /\ selectedType' = "none"
  /\ showNumpad' = FALSE
  /\ customSize' = <<>>
  /\ UNCHANGED <<actions, config, currentStreet, uuid>>
  /\ localRender

\* allInSize !== undefined ? allInSize : -1
AllInSizeOrSentinel ==
  LET allInSize == getRemainingStack(actions, stackBb, selectedPosition, tableSize, blind)
  IN  IF allInSize # <<>> THEN allInSize[1] ELSE AllInSentinel

\* one of the buttons Fold / Check / Call / Raise / All-in is clicked
handleTypeSelect ==
  /\ mounted
  /\ selectedPosition # "none"
  /\ selectedType = "none"
  /\ \E type \in {"FOLD", "CHECK", "CALL", "RAISE", "ALLIN"} :
       IF type \in {"FOLD", "CHECK", "CALL"} THEN handleAddAction(NewAction(type))
       ELSE IF type = "ALLIN" THEN handleAddAction(NewRaise(AllInSizeOrSentinel))
       ELSE /\ selectedType' = "RAISE"
            /\ showNumpad' = isThreeBetOrMore
            /\ customSize' = IF isThreeBetOrMore THEN <<>> ELSE customSize
            /\ UNCHANGED <<actions, config, currentStreet, selectedPosition, uuid>>
            /\ localRender

\* variant of RoundPotRatio that rounds a half down
RoundPotRatio_HalfDown(pot, ratio) == 2 * ((pot * ratio + 99) \div 200)

\* Math.round(potSize * ratio) BB for a ratio in hundredths, in half BB
RoundPotRatio(pot, ratio) == 2 * ((pot * ratio + 100) \div 200)

\* a pot-ratio preset is clicked (postflop size panel)
handlePotRatioSelect ==
  /\ mounted
  /\ selectedPosition # "none" /\ selectedType # "none"
  /\ ~showNumpad /\ HasSizePresets /\ ~IsPreflop
  /\ \E ratio \in presets : handleAddAction(NewRaise(RoundPotRatio(PotSize, ratio)))

\* a fixed-size preset is clicked (preflop size panel)
handleSizeSelect ==
  /\ mounted
  /\ selectedPosition # "none" /\ selectedType # "none"
  /\ ~showNumpad /\ HasSizePresets /\ IsPreflop
  /\ \E sizeBb \in PreflopPresetInputs : handleAddAction(NewRaise(sizeBb))

\* the entry buffers the sessions type: amounts in multiples of half a big blind,
\* written with at most one decimal digit
IsHalfBbEntry(entry) ==
  \A i \in 1..Len(entry) :
    (\E j \in 1..(i - 1) : entry[j] = ".")
      => (i = Len(entry) /\ entry[i] \in {"0", "5"})

\* a digit or "." key of the numpad is pressed
handleNumpadInput ==
  /\ mounted
  /\ showNumpad
  /\ \E digit \in keys :
       /\ Len(customSize) < entryLimit
       /\ IsHalfBbEntry(customSize \o <<digit>>) \/ digit = "."
       /\ customSize' = IF digit = "." /\ Includes(customSize, ".")
                           THEN customSize
                           ELSE customSize \o <<digit>>
  /\ UNCHANGED <<actions, config, currentStreet, selectedPosition, selectedType,
                 showNumpad, uuid>>
  /\ localRender

\* the numpad's delete key: customSize.slice(0, -1)
handleNumpadDelete ==
  /\ mounted
  /\ showNumpad
  /\ customSize' = SubSeq(customSize, 1, Len(customSize) - 1)
  /\ UNCHANGED <<actions, config, currentStreet, selectedPosition, selectedType,
                 showNumpad, uuid>>
  /\ localRender

\* variant of handleNumpadConfirm that records every numeric entry, 0 included
handleNumpadConfirm_AcceptsZero ==
  /\ mounted
  /\ showNumpad
  /\ selectedPosition # "none" /\ selectedType # "none"
  /\ LET size == parseFloat(customSize)
     IN  IF size # <<>>
           THEN handleAddAction(NewRaise(size[1]))
           ELSE UNCHANGED vars

\* the numpad's confirm button: parseFloat(customSize), and handleSizeSelect when
\* the value is a number greater than 0
handleNumpadConfirm ==
  /\ mounted
  /\ showNumpad
  /\ selectedPosition # "none" /\ selectedType # "none"
  /\ LET size == parseFloat(customSize)
     IN  IF size # <<>> /\ size[1] > 0
           THEN handleAddAction(NewRaise(size[1]))
           ELSE UNCHANGED vars

\* "free entry" button of the size panel
openNumpad ==
  /\ mounted
  /\ selectedType # "none" /\ ~showNumpad /\ HasSizePresets
  /\ showNumpad' = TRUE
  /\ customSize' = <<>>
  /\ UNCHANGED <<actions, config, currentStreet, selectedPosition, selectedType, uuid>>
  /\ localRender

\* the numpad's backdrop or back button
closeNumpad ==
  /\ mounted
  /\ showNumpad
  /\ showNumpad' = FALSE
  /\ selectedType' = IF HasSizePresets THEN selectedType ELSE "none"
  /\ UNCHANGED <<actions, config, currentStreet, selectedPosition, customSize, uuid>>
  /\ localRender

\* back button of the type panel
backFromType ==
  /\ mounted
  /\ selectedPosition # "none" /\ selectedType = "none"
  /\ ResetSelection
  /\ UNCHANGED <<actions, config, currentStreet, uuid>>
  /\ localRender

\* back button of the size panel
backFromSize ==
  /\ mounted
  /\ selectedType # "none" /\ ~showNumpad /\ HasSizePresets
  /\ selectedType' = "none"
  /\ UNCHANGED <<actions, config, currentStreet, selectedPosition, showNumpad, customSize, uuid>>
  /\ localRender

\* variant of handleRemoveAction whose delete button is shown on every street
handleRemoveAction_AnyStreet ==
  /\ mounted
  /\ \E i \in 1..Len(actions) :
       actions' = SelectSeq(actions, LAMBDA a : a.id # actions[i].id)
  /\ UNCHANGED <<config, currentStreet, selectedPosition, selectedType, showNumpad, customSize, uuid>>
  /\ autoAdvanceEffect
  /\ autoSaveEffect

\* the delete button of an action shown with isCurrentStreet
handleRemoveAction ==
  /\ mounted
  /\ \E i \in 1..Len(actions) :
       /\ actions[i].street = currentStreet
       /\ actions' = SelectSeq(actions, LAMBDA a : a.id # actions[i].id)
  /\ UNCHANGED <<config, currentStreet, selectedPosition, selectedType, showNumpad, customSize, uuid>>
  /\ autoAdvanceEffect
  /\ autoSaveEffect

\* a street tab is clicked; the effect on currentStreet resets the selection
setCurrentStreet ==
  /\ mounted
  /\ \E s \in tabs : s # currentStreet /\ currentStreet' = s
  /\ ResetSelection
  /\ UNCHANGED <<actions, config, uuid>>
  /\ autoAdvanceEffect
  /\ autoSaveEffect

\* variant of onNextStreet whose closure advances two streets at once
onNextStreet_SkipsAStreet ==
  /\ timer # "none"
  /\ currentStreet' = IF StreetIndex(timer) + 3 <= Len(streets)
                         THEN streets[StreetIndex(timer) + 3]
                         ELSE streets[Len(streets)]
  /\ ResetSelection
  /\ UNCHANGED <<actions, config, uuid>>
  /\ autoAdvanceEffect
  /\ autoSaveEffect

\* variant of onNextStreet whose advance also records a CHECK for the first seat of
\* the street it leaves
onNextStreet_RecordsImpliedCheck ==
  /\ timer # "none"
  /\ currentStreet' = IF StreetIndex(timer) < Len(streets) - 1
                         THEN streets[StreetIndex(timer) + 2]
                         ELSE currentStreet
  /\ actions' = Append(actions, [id |-> 0, order |-> Len(actions), street |-> timer,
                                 position |-> postflopOrder(tableSize)[1],
                                 type |-> "CHECK"])
  /\ ResetSelection
  /\ UNCHANGED <<config, uuid>>
  /\ autoAdvanceEffect
  /\ autoSaveEffect

\* the pending timeout fires: the onNextStreet closure it holds advances from the
\* street it captured, and the resulting render runs the effect again
onNextStreet ==
  /\ timer # "none"
  /\ IF StreetIndex(timer) < Len(streets) - 1
       THEN /\ currentStreet' = streets[StreetIndex(timer) + 2]
            /\ ResetSelection
            /\ UNCHANGED <<actions, config, uuid>>
            /\ autoAdvanceEffect
            /\ autoSaveEffect
       ELSE /\ timer' = "none"
            /\ UNCHANGED <<actions, config, uuid, currentStreet, mounted, storedHand,
                           selectedPosition, selectedType, showNumpad, customSize>>

\* the fields of the hand other than status, the store and the session parameters
keptOnLeave == <<actions, uuid, tableSize, blind, stackBb, tabs, presets, appendLimit,
                 keys, entryLimit, hook, stored, returned, document, heroCards, board,
                 opponentHands, showdown, replaced, seating, routerTransition>>

\* HandEditor leaves the screen: the effect's cleanup clears the timeout and the
\* component state is dropped
LeaveEditor ==
  /\ mounted' = FALSE
  /\ timer' = "none"
  /\ currentStreet' = "preflop"
  /\ ResetSelection
  /\ inputMode' = "none"
  /\ heroCardSlot' = 0
  /\ boardSlot' = "none"
  /\ opponentCardSlot' = <<>>
  /\ selectedRank' = "none"

\* the header's back button, navigate('/')
unmount ==
  /\ mounted
  /\ LeaveEditor
  /\ UNCHANGED <<keptOnLeave, status, storedHand, loadedWith>>

\* setHand({ ...hand, status }) and navigate('/') in one event.  The router's
\* update is batched with the hand's: HandEditor leaves the screen in the render
\* that would show the new hand, and the update and its auto-save are dropped.
\* A router that defers its update to a transition lets that render, and its
\* auto-save effect, come first.
SetStatusAndLeave(newStatus) ==
  /\ status' = IF routerTransition THEN newStatus ELSE status
  /\ LeaveEditor
  /\ UNCHANGED <<keptOnLeave, loadedWith>>
  /\ storedHand' = IF routerTransition /\ hand' # hand THEN hand' ELSE storedHand

handleComplete ==
  /\ mounted
  /\ SetStatusAndLeave("done")

handleSaveDraft ==
  /\ mounted
  /\ SetStatusAndLeave("draft")

\* the saved hand is opened again: fresh component state, then the effects run
mount ==
  /\ ~mounted
  /\ mounted' = TRUE
  /\ UNCHANGED <<actions, config, uuid, currentStreet, storedHand,
                 selectedPosition, selectedType, showNumpad, customSize>>
  /\ timer' = Scheduled'

\* the initial state of HandEditor's history, useUndoRedo<Hand | null>(null)
NullHand == 0
\* the hand getHandById returns for the route's id
LoadedHand == 1
\* maxHistory of a useUndoRedo call without options
DefaultMaxHistory == 50
\* no run of the initial-load effect yet
NoCallback == -1

\* the initial-load effect, and the render its setHand causes.  The effect runs
\* after the first render and after every render whose setHand is a new callback;
\* useCallback returns a new setState whenever currentIndex has changed.
loadEffect ==
  /\ mounted
  /\ loadedWith # currentIndex
  /\ loadedWith' = currentIndex
  /\ IF stored["hands"] # "absent"
       THEN /\ history' = PushedHistory(LoadedHand)
            /\ currentIndex' = IF currentIndex + 1 >= maxHistory THEN maxHistory - 1
                                ELSE currentIndex + 1
            /\ discarded' = Len(history) - (currentIndex + 1)
            /\ UNCHANGED <<actions, uuid, currentStreet, selectedPosition, selectedType,
                           showNumpad, customSize, tableSize, blind, stackBb, tabs,
                           presets, appendLimit, keys, entryLimit, maxHistory, stored,
                           returned, document, cards, seating, status,
                           routerTransition>>
            /\ autoAdvanceEffect
            /\ autoSaveEffect
       ELSE /\ LeaveEditor
            /\ UNCHANGED <<keptOnLeave, status, storedHand>>

Next ==
  \/ handlePositionSelect
  \/ handleTypeSelect
  \/ handlePotRatioSelect
  \/ handleSizeSelect
  \/ handleNumpadInput
  \/ handleNumpadDelete
  \/ handleNumpadConfirm
  \/ openNumpad
  \/ closeNumpad
  \/ backFromType
  \/ backFromSize
  \/ handleRemoveAction
  \/ setCurrentStreet
  \/ onNextStreet
  \/ unmount
  \/ mount

\* a heads-up hand; the user moves between the preflop and flop tabs
Init == InitEditor({2}, {"preflop", "flop"}, MaxAppends)
Spec == Init /\ [][Next]_vars

\* a 3-handed hand; the user returns to the preflop tab only
InitRing == InitEditor({3}, {"preflop"}, MaxAppendsRing)
SpecRing == InitRing /\ [][Next]_vars

\* a heads-up hand with a longer session on the preflop tab
InitDeep == InitEditor({2}, {"preflop"}, MaxAppendsDeep)
SpecDeep == InitDeep /\ [][Next]_vars

\* a heads-up hand whose user opens the flop tab and records the flop
InitPostflop == InitEditor({2}, {"flop"}, MaxAppendsPostflop)
SpecPostflop == InitPostflop /\ [][Next]_vars

\* a heads-up hand on the preflop tab, the timeout of the auto-advance effect
\* being a timer the runtime fires once its delay has elapsed
InitLive == InitEditor({2}, {"preflop"}, MaxAppendsLive)
SpecLive == InitLive /\ [][Next]_vars /\ WF_vars(onNextStreet)

\* a stored heads-up hand, BTN raise called by BB, is opened; once on the flop the
\* user sizes bets with every pot-ratio preset
StoredCalledRaise(size) ==
  << [id |-> 101, order |-> 0, street |-> "preflop", position |-> "BTN",
      type |-> "RAISE", sizeBb |-> size],
     [id |-> 102, order |-> 1, street |-> "preflop", position |-> "BB",
      type |-> "CALL"] >>

InitSizing ==
  /\ actions \in {StoredCalledRaise(size) : size \in StoredRaiseInputs}
  /\ tableSize = 2
  /\ tabs = {"preflop"}
  /\ presets = POSTFLOP_SIZE_PRESETS
  /\ appendLimit = MaxAppendsSizing
  /\ blind \in BlindInputs
  /\ stackBb \in [Position -> StackInputs]
  /\ currentStreet = "preflop"
  /\ selectedPosition = "none"
  /\ selectedType = "none"
  /\ showNumpad = FALSE
  /\ customSize = <<>>
  /\ keys = NumpadKeyInputs
  /\ entryLimit = MaxEntry
  /\ IdleHook
  /\ IdleStorage
  /\ IdleCards
  /\ uuid = 0
  /\ mounted = TRUE
  /\ timer = Scheduled
  /\ IdleSeats
  /\ IdleSave
  /\ tableSizes = {}
SpecSizing == InitSizing /\ [][Next]_vars

\* a stored heads-up hand whose preflop is a called raise of 3 BB
InitPot ==
  /\ actions = StoredCalledRaise(6)
  /\ tableSize = 2
  /\ tabs = {"preflop"}
  /\ presets = PotRatioInputs
  /\ appendLimit = MaxAppendsPot
  /\ blind \in BlindInputs
  /\ stackBb \in [Position -> StackInputs]
  /\ currentStreet = "preflop"
  /\ selectedPosition = "none"
  /\ selectedType = "none"
  /\ showNumpad = FALSE
  /\ customSize = <<>>
  /\ keys = NumpadKeyInputs
  /\ entryLimit = MaxEntry
  /\ IdleHook
  /\ IdleStorage
  /\ IdleCards
  /\ uuid = 0
  /\ mounted = TRUE
  /\ timer = Scheduled
  /\ IdleSeats
  /\ IdleSave
  /\ tableSizes = {}
SpecPot == InitPot /\ [][Next]_vars

\* a stored heads-up hand whose preflop is a called raise of 3 BB, with the
\* stacks of the two seats entered or left empty
InitStacks ==
  /\ actions = StoredCalledRaise(6)
  /\ tableSize = 2
  /\ tabs = {"preflop"}
  /\ presets = PotRatioInputs
  /\ appendLimit = MaxAppendsStacks
  /\ blind \in BlindInputs
  /\ stackBb \in {[p \in Position |->
                     IF p = "BTN" THEN btn ELSE IF p = "BB" THEN bb ELSE 0] :
                   btn \in ButtonStackInputs, bb \in BigBlindStackInputs}
  /\ currentStreet = "preflop"
  /\ selectedPosition = "none"
  /\ selectedType = "none"
  /\ showNumpad = FALSE
  /\ customSize = <<>>
  /\ keys = NumpadKeyInputs
  /\ entryLimit = MaxEntry
  /\ IdleHook
  /\ IdleStorage
  /\ IdleCards
  /\ uuid = 0
  /\ mounted = TRUE
  /\ timer = Scheduled
  /\ IdleSeats
  /\ IdleSave
  /\ tableSizes = {}
SpecStacks == InitStacks /\ [][Next]_vars

\* a stored heads-up hand whose preflop is a called raise of 3 BB; the user
\* types entries of the keys 0, 5 and "."
InitNumpad ==
  /\ actions = StoredCalledRaise(6)
  /\ tableSize = 2
  /\ tabs = {"preflop"}
  /\ presets = PotRatioInputs
  /\ appendLimit = MaxAppendsNumpad
  /\ blind \in BlindInputs
  /\ stackBb \in [Position -> StackInputs]
  /\ currentStreet = "preflop"
  /\ selectedPosition = "none"
  /\ selectedType = "none"
  /\ showNumpad = FALSE
  /\ customSize = <<>>
  /\ keys = NumpadEntryKeyInputs
  /\ entryLimit = MaxEntryNumpad
  /\ IdleHook
  /\ IdleStorage
  /\ IdleCards
  /\ uuid = 0
  /\ mounted = TRUE
  /\ timer = Scheduled
  /\ IdleSeats
  /\ IdleSave
  /\ tableSizes = {}
SpecNumpad == InitNumpad /\ [][Next]_vars

\* a stored hand without actions whose tableSize may be outside 2..9
InitOutOfRange ==
  /\ actions = <<>>
  /\ tableSize \in StoredTableSizeInputs
  /\ tabs = {"preflop", "flop"}
  /\ presets = PotRatioInputs
  /\ appendLimit = MaxAppendsOutOfRange
  /\ blind \in BlindInputs
  /\ stackBb \in [Position -> StackInputs]
  /\ currentStreet = "preflop"
  /\ selectedPosition = "none"
  /\ selectedType = "none"
  /\ showNumpad = FALSE
  /\ customSize = <<>>
  /\ keys = NumpadKeyInputs
  /\ entryLimit = MaxEntry
  /\ IdleHook
  /\ IdleStorage
  /\ IdleCards
  /\ uuid = 0
  /\ mounted = TRUE
  /\ timer = "none"
  /\ IdleSeats
  /\ IdleSave
  /\ tableSizes = {}
SpecOutOfRange == InitOutOfRange /\ [][Next]_vars

\* a useUndoRedo instance after its first render, the editor not shown
InitUndo ==
  /\ history \in {<<initialState>> : initialState \in SnapshotInputs}
  /\ currentIndex = 0
  /\ maxHistory \in 1..MaxHistory
  /\ discarded = 0
  /\ IdleStorage
  /\ IdleCards
  /\ actions = <<>>
  /\ tableSize = 2
  /\ tabs = {"preflop"}
  /\ presets = PotRatioInputs
  /\ appendLimit = 0
  /\ blind \in BlindInputs
  /\ stackBb \in [Position -> StackInputs]
  /\ currentStreet = "preflop"
  /\ selectedPosition = "none"
  /\ selectedType = "none"
  /\ showNumpad = FALSE
  /\ customSize = <<>>
  /\ keys = NumpadKeyInputs
  /\ entryLimit = 0
  /\ uuid = 0
  /\ mounted = FALSE
  /\ timer = "none"
  /\ IdleSeats
  /\ IdleSave
  /\ tableSizes = {}

\* one call of the hook's operations per render
NextUndo ==
  \/ setState
  \/ undo
  \/ redo
  \/ clearHistory

SpecUndo == InitUndo /\ [][NextUndo]_vars

\* HandEditor after its first render for the route /hand/:id, the hand of that id,
\* of one table size or another, being stored or not
InitLoad ==
  /\ history = <<NullHand>>
  /\ currentIndex = 0
  /\ maxHistory = DefaultMaxHistory
  /\ discarded = 0
  /\ loadedWith = NoCallback
  /\ stored \in {[k \in {"players", "hands", "settings"} |-> IF k = "hands" THEN h ELSE "0"] :
                   h \in {"0", "absent"}}
  /\ returned = "none"
  /\ document = <<>>
  /\ IdleCards
  /\ actions = <<>>
  /\ tableSize \in TableSizeInputs
  /\ tabs = {"preflop"}
  /\ presets = PotRatioInputs
  /\ appendLimit = 0
  /\ blind \in BlindInputs
  /\ stackBb \in [Position -> StackInputs]
  /\ currentStreet = "preflop"
  /\ selectedPosition = "none"
  /\ selectedType = "none"
  /\ showNumpad = FALSE
  /\ customSize = <<>>
  /\ keys = NumpadKeyInputs
  /\ entryLimit = 0
  /\ uuid = 0
  /\ mounted = TRUE
  /\ timer = "none"
  /\ IdleSeats
  /\ status = "draft"
  /\ storedHand = hand
  /\ routerTransition = FALSE
  /\ tableSizes = {}

\* the renders that follow the first one without a user event
NextLoad == loadEffect

SpecLoad == InitLoad /\ [][NextLoad]_vars

\* the hook's operations, a render following one call or several calls of setState
NextBatch ==
  \/ setState
  \/ \E calls \in BatchInputs : setStateBatch(calls)
  \/ undo
  \/ redo
  \/ clearHistory

SpecBatch == InitUndo /\ [][NextBatch]_vars

\* the settings page with the three collections stored, the editor not shown
InitImport ==
  /\ IdleStorage
  /\ IdleCards
  /\ IdleHook
  /\ actions = <<>>
  /\ tableSize = 2
  /\ tabs = {"preflop"}
  /\ presets = PotRatioInputs
  /\ appendLimit = 0
  /\ blind \in BlindInputs
  /\ stackBb \in [Position -> StackInputs]
  /\ currentStreet = "preflop"
  /\ selectedPosition = "none"
  /\ selectedType = "none"
  /\ showNumpad = FALSE
  /\ customSize = <<>>
  /\ keys = NumpadKeyInputs
  /\ entryLimit = 0
  /\ uuid = 0
  /\ mounted = FALSE
  /\ timer = "none"
  /\ IdleSeats
  /\ IdleSave
  /\ tableSizes = {}

NextImport ==
  \/ importAllData
  \/ clearAllData

SpecImport == InitImport /\ [][NextImport]_vars

\* a new heads-up hand on the editor page, its card slots empty
InitCards == InitEditor({2}, {"preflop"}, 0)

NextCards ==
  \/ handleHeroCardClick
  \/ handleOpponentCardClick
  \/ handleBoardSlotSelect
  \/ handleShowdownToggle
  \/ handleRankClick
  \/ handleCancelRank
  \/ handleSuitClick

SpecCards == InitCards /\ [][NextCards]_vars

\* a new hand of a small table on the editor page
InitSeats ==
  /\ actions = <<>>
  /\ tableSize \in TableSizeInputs
  /\ tableSizes = TableSizeInputs
  /\ tabs = {"preflop"}
  /\ presets = PotRatioInputs
  /\ appendLimit = 0
  /\ blind \in BlindInputs
  /\ stackBb \in [Position -> StackInputs]
  /\ currentStreet = "preflop"
  /\ selectedPosition = "none"
  /\ selectedType = "none"
  /\ showNumpad = FALSE
  /\ customSize = <<>>
  /\ keys = NumpadKeyInputs
  /\ entryLimit = MaxEntry
  /\ IdleHook
  /\ IdleStorage
  /\ IdleCards
  /\ IdleSeats
  /\ IdleSave
  /\ uuid = 0
  /\ timer = "none"
  /\ mounted = TRUE

NextSeats ==
  \/ handleTableSizeChange
  \/ handleSetHero
  \/ handlePlayerAssign

SpecSeats == InitSeats /\ [][NextSeats]_vars

\* a new 3-handed hand; the user changes the table size while recording actions
InitResize ==
  /\ actions = <<>>
  /\ tableSize = 3
  /\ tableSizes = ResizeInputs
  /\ tabs = {"preflop", "flop"}
  /\ presets = PotRatioInputs
  /\ appendLimit = MaxAppendsResize
  /\ blind \in BlindInputs
  /\ stackBb \in [Position -> StackInputs]
  /\ currentStreet = "preflop"
  /\ selectedPosition = "none"
  /\ selectedType = "none"
  /\ showNumpad = FALSE
  /\ customSize = <<>>
  /\ keys = NumpadKeyInputs
  /\ entryLimit = MaxEntry
  /\ IdleHook
  /\ IdleStorage
  /\ IdleCards
  /\ IdleSeats
  /\ IdleSave
  /\ uuid = 0
  /\ timer = "none"
  /\ mounted = TRUE

NextResize ==
  \/ Next
  \/ handleTableSizeChange

SpecResize == InitResize /\ [][NextResize]_vars

\* a new heads-up hand in the editor, under either router
InitSave ==
  /\ actions = <<>>
  /\ tableSize = 2
  /\ tableSizes = {}
  /\ tabs = {"preflop", "flop"}
  /\ presets = PotRatioInputs
  /\ appendLimit = MaxAppendsSave
  /\ blind \in BlindInputs
  /\ stackBb \in [Position -> StackInputs]
  /\ currentStreet = "preflop"
  /\ selectedPosition = "none"
  /\ selectedType = "none"
  /\ showNumpad = FALSE
  /\ customSize = <<>>
  /\ keys = NumpadKeyInputs
  /\ entryLimit = MaxEntry
  /\ IdleHook
  /\ IdleStorage
  /\ IdleCards
  /\ IdleSeats
  /\ status = "draft"
  /\ storedHand = hand
  /\ routerTransition \in BOOLEAN
  /\ loadedWith = 0
  /\ uuid = 0
  /\ timer = "none"
  /\ mounted = TRUE

NextSave ==
  \/ Next
  \/ handleComplete
  \/ handleSaveDraft

SpecSave == InitSave /\ [][NextSave]_vars

\* a new hand of any table size and blind level
InitBlinds ==
  /\ actions = <<>>
  /\ tableSize \in TABLE_SIZE_OPTIONS
  /\ blind \in BLIND_OPTIONS
  /\ tabs = {"preflop", "flop"}
  /\ presets = PotRatioInputs
  /\ appendLimit = MaxAppendsBlinds
  /\ stackBb \in [Position -> StackInputs]
  /\ currentStreet = "preflop"
  /\ selectedPosition = "none"
  /\ selectedType = "none"
  /\ showNumpad = FALSE
  /\ customSize = <<>>
  /\ keys = NumpadKeyInputs
  /\ entryLimit = MaxEntry
  /\ IdleHook
  /\ IdleStorage
  /\ IdleCards
  /\ uuid = 0
  /\ mounted = TRUE
  /\ timer = "none"
  /\ IdleSeats
  /\ IdleSave
  /\ tableSizes = {}
SpecBlinds == InitBlinds /\ [][Next]_vars

\* ================================================================ claims
\* the most recently appended action of a non-empty list (appends push to the end
\* and removals keep the relative positions)
LastAppended(s) == s[Len(s)]

RaisesOf(s) == SelectSeq(s, IsRaise)

IsDeterminateRaise(a) == IsRaise(a) /\ ~IsAllInSentinel(a)

\* seats of the preflop order that are neither explicitly nor implicitly folded
NonFoldedSeats ==
  {p \in Position : Includes(preflopOrder(tableSize), p) /\ ~Includes(AllFolded, p)}

\* C1: preflop with exactly one raise recorded: when the most recently recorded
\* preflop action is a CALL by BB the detector reports complete, and when it is a
\* RAISE by BB (of a determinate size) it reports incomplete.
C1_BBCallClosesSingleRaise ==
  (IsPreflop /\ Len(RaisesOf(PreflopActions)) = 1) =>
     LET last == LastAppended(PreflopActions)
     IN  /\ (last.type = "CALL" /\ last.position = "BB") => StreetComplete
         /\ (IsDeterminateRaise(last) /\ last.position = "BB") => ~StreetComplete

\* C2: on every street, when the most recently appended action of the current
\* street is a raise whose size is not the all-in sentinel, the detector reports
\* the street incomplete.
C2_OpenRaiseKeepsStreetOpen ==
  (Len(CurrentStreetActions) > 0 /\ IsDeterminateRaise(LastAppended(CurrentStreetActions)))
     => ~StreetComplete

\* C3: the order values of the actions of a hand are pairwise distinct.
C3_OrdersDistinct ==
  \A i, j \in 1..Len(actions) : i # j => actions[i].order # actions[j].order

\* the orders of the list increase with the append order
OrdersFollowAppends ==
  \A i, j \in 1..Len(actions) : i < j => actions[i].order < actions[j].order

\* the sum, over the streets before the given one, of every seat's final total for
\* that street, the blinds being the initial preflop totals of SB and BB
ContributedBeforeStreet(acts, street, n, b) ==
  PotLoop(acts, 0, StreetIndex(street), 0, initialBets(n, b))

\* C4: the pot entering a postflop street counts each forced blind exactly once: it
\* equals the sum over the elapsed streets of every seat's final contributed total.
C4_PotCountsBlindsOnce ==
  ~IsPreflop => PotSize = ContributedBeforeStreet(actions, currentStreet, tableSize, blind)

\* the seats the resolver is claimed to keep, for a last raise r
ClaimedInHand(pf, r) ==
  {r.position}
    \cup {pf[i].position : i \in {j \in 1..Len(pf) : pf[j].type = "CALL" /\ pf[j].order > r.order}}
    \cup {pf[i].position : i \in {j \in 1..Len(pf) : HasSize(pf[j]) /\ pf[j].sizeBb = -1}}

\* C5: the active-player resolver returns the full postflop order when no preflop
\* raise exists; otherwise the seats of a raise of greatest order, of the CALLs
\* ordered after it and of every preflop action of size -1, in postflop order.
C5_ResolverKeepsRaiserCallersAllIns ==
  LET pf == PreflopActions
      post == postflopOrder(tableSize)
      raiseIdx == {i \in 1..Len(pf) : pf[i].type = "RAISE"}
  IN  IF raiseIdx = {}
        THEN PlayersInHand = post
        ELSE \E i \in raiseIdx :
               /\ \A j \in raiseIdx : pf[j].order <= pf[i].order
               /\ PlayersInHand = SelectSeq(post, LAMBDA p : p \in ClaimedInHand(pf, pf[i]))

\* C5 witness: the example of the claim on a 3-handed table: BTN raised, SB folded,
\* BB called afterwards, and the resolver returns <<BB, BTN>>.
C5_Witness ==
  /\ tableSize = 3
  /\ PlayersInHand = <<"BB", "BTN">>
  /\ \E i, j, k \in 1..Len(PreflopActions) :
       /\ IsRaise(PreflopActions[i]) /\ PreflopActions[i].position = "BTN"
       /\ IsFold(PreflopActions[j]) /\ PreflopActions[j].position = "SB"
       /\ PreflopActions[k].type = "CALL" /\ PreflopActions[k].position = "BB"
       /\ PreflopActions[k].order > PreflopActions[i].order

\* seats of the set-valued result of a sequence of positions
SeatSet(s) == {s[i] : i \in 1..Len(s)}

\* the seats preceding seat p in the preflop order
SeatsBefore(p) ==
  LET order == preflopOrder(tableSize)
  IN  {order[i] : i \in {j \in 1..Len(order) : j - 1 < IndexOf(order, p)}}

\* the implicit-fold set claimed on the preflop street, for the set acted of seats
\* that count as having a recorded action
ClaimedImplicitFolds(acted) ==
  LET raiseIdx == {i \in 1..Len(PreflopActions) : IsRaise(PreflopActions[i])}
  IN  IF raiseIdx = {}
        THEN SeatSet(ImplicitlyFolded) = {}
        ELSE \E i \in raiseIdx :
               /\ \A j \in raiseIdx : PreflopActions[j].order >= PreflopActions[i].order
               /\ SeatSet(ImplicitlyFolded) = SeatsBefore(PreflopActions[i].position) \ acted

C7_FoldedSeatNeverOffered ==
  \A i \in 1..Len(actions) :
     IsFold(actions[i]) =>
       /\ ~IsPreflop => ~Includes(Available, actions[i].position)
       /\ ~Includes(EditorPlayersInHand, actions[i].position)

\* C8: preflop with two or more raises, the last recorded action being a CALL: the
\* detector reports complete when the caller made the second-to-last raise; after a
\* CALL by another seat it reports complete only if one non-folded seat remains.
C8_OutRaisedCallerCloses ==
  (IsPreflop /\ Len(RaisesOf(PreflopActions)) >= 2
     /\ LastAppended(PreflopActions).type = "CALL") =>
       LET raises == RaisesOf(PreflopActions)
           caller == LastAppended(PreflopActions).position
       IN  IF caller = raises[Len(raises) - 1].position
             THEN StreetComplete
             ELSE StreetComplete => Cardinality(NonFoldedSeats) = 1

\* C9: preflop with at least one raise: once a FOLD has left exactly one seat that
\* is neither explicitly nor implicitly folded, the detector reports complete.
C9_FoldToOneCloses ==
  (IsPreflop /\ Len(RaisesOf(PreflopActions)) >= 1
     /\ IsFold(LastAppended(PreflopActions))
     /\ Cardinality(NonFoldedSeats) = 1) => StreetComplete

\* C10: on a postflop street without a raise, whenever the detector reports
\* complete every active seat of the street has a CHECK recorded on that street.
C10_CheckAroundCoversEverySeat ==
  (~IsPreflop /\ Len(RaisesOf(CurrentStreetActions)) = 0 /\ StreetComplete) =>
     \A i \in 1..Len(Available) :
        \E k \in 1..Len(CurrentStreetActions) :
           /\ CurrentStreetActions[k].type = "CHECK"
           /\ CurrentStreetActions[k].position = Available[i]

\* the seats of Available other than seat p that have an action of the current
\* street ordered after order o
OthersActedAfter(p, o) ==
  \A i \in 1..Len(Available) :
     Available[i] # p =>
       \E k \in 1..Len(CurrentStreetActions) :
          /\ CurrentStreetActions[k].position = Available[i]
          /\ CurrentStreetActions[k].order > o

\* C11: on a postflop street with a raise recorded, the detector reports complete
\* exactly when every active seat other than the seat of the most recent raise has
\* an action of that street ordered after that raise, and the last action of the
\* street is not a raise of determinate size.
C11_PostflopRaiseClosesWhenOthersActed ==
  (~IsPreflop /\ Len(RaisesOf(CurrentStreetActions)) >= 1) =>
     LET r == LastAppended(RaisesOf(CurrentStreetActions))
         last == LastAppended(CurrentStreetActions)
     IN  StreetComplete <=>
           (OthersActedAfter(r.position, r.order) /\ ~IsDeterminateRaise(last))

\* a step taken by the user: any handler other than the timeout's callback
UserEvent ==
  \/ handlePositionSelect \/ handleTypeSelect \/ handlePotRatioSelect
  \/ handleSizeSelect \/ handleNumpadInput \/ handleNumpadDelete
  \/ handleNumpadConfirm \/ openNumpad \/ closeNumpad
  \/ backFromType \/ backFromSize \/ handleRemoveAction \/ setCurrentStreet
  \/ unmount \/ mount

\* the shown editor is on street s and the detector reports it complete
CompleteOn(s) == mounted /\ currentStreet = s /\ StreetComplete

\* C12: when the street is preflop, flop or turn and reported complete, the state
\* does not stay so forever, and the first step out of it that is not a user event
\* makes the immediately following street the current street.
C12_CompleteStreetAdvancesByOne ==
  /\ \A s \in {"preflop", "flop", "turn"} : CompleteOn(s) ~> ~CompleteOn(s)
  /\ [][(mounted /\ StreetComplete /\ HasNextStreet /\ ~UserEvent)
          => currentStreet' = streets[StreetIndex(currentStreet) + 2]]_vars

\* C12 witness: the river was reached from a turn that has recorded actions, in a
\* session whose user opens no tab but preflop.
C12_Witness ==
  /\ mounted /\ currentStreet = "river"
  /\ Len(OnStreet(actions, "turn")) > 0
  /\ tabs = {"preflop"}

\* C13: a timeout is pending only while the editor is shown on the street its
\* closure captured and that street is reported complete, so that after the closing
\* action is removed, the street is switched or the editor is left no transition is
\* pending; and every step that is not a user event leaves a complete street.
C13_NoStaleAutoAdvance ==
  /\ [](timer # "none" => (mounted /\ timer = currentStreet /\ StreetComplete))
  /\ [][~UserEvent => (mounted /\ StreetComplete /\ timer = currentStreet)]_vars

\* C13 witness: the editor was left while the preflop street of the saved hand is
\* complete, and no timeout is pending.
C13_Witness ==
  /\ ~mounted /\ timer = "none"
  /\ StreetComplete /\ HasNextStreet

\* the number of raises of the street of a ordered at or before a, a included
RaiseRank(a) ==
  Cardinality({i \in 1..Len(actions) :
                 /\ IsRaise(actions[i]) /\ actions[i].street = a.street
                 /\ actions[i].order <= a.order})

\* the label claimed for action a
ClaimedLabel(a) ==
  IF ~IsRaise(a) THEN toLowerCase(a.type)
  ELSE LET n == RaiseRank(a)
       IN  IF a.street = "preflop"
             THEN CASE n = 1 -> "open" [] n = 2 -> "3bet" [] n = 3 -> "4bet"
                    [] n = 4 -> "5bet" [] OTHER -> ToString(n + 1) \o "bet"
             ELSE IF n = 1 THEN "bet" ELSE "raise"

\* C14: both label functions give every action the label determined by the number
\* n of raises of its street ordered at or before it: preflop open, 3bet, 4bet,
\* 5bet, (n+1)bet; postflop bet, raise; the lowercase type for other actions.
C14_LabelFollowsRaiseRank ==
  \A i \in 1..Len(actions) :
     /\ getRaiseLabel(actions[i], actions) = ClaimedLabel(actions[i])
     /\ getActionDisplayLabel(actions[i], actions) = ClaimedLabel(actions[i])

\* a step of the postflop size panel that appends an action
PotRatioStep ==
  /\ mounted /\ ~IsPreflop /\ selectedType = "RAISE" /\ ~showNumpad
  /\ Len(actions') = Len(actions) + 1

\* size, in half BB, is a whole number k of BB with k - 1/2 <= p * r < k + 1/2 for
\* the pot p and the ratio r of a preset
IsNearestWholeBb(size, pot, ratio) ==
  /\ size % 2 = 0
  /\ 100 * size - 100 <= pot * ratio
  /\ pot * ratio < 100 * size + 100

\* C15: a postflop pot-ratio preset r chosen against pot p records a raise of
\* floor(p * r + 1/2) BB, a half rounding up.
C15_PotRatioRoundsHalfUp ==
  [][PotRatioStep =>
       LET a == actions'[Len(actions')]
       IN  /\ IsRaise(a) /\ HasSize(a)
           /\ \E ratio \in presets : IsNearestWholeBb(a.sizeBb, PotSize, ratio)]_vars

\* C15 witness: on the flop with a pot of 7 BB a raise of 5 BB is recorded, the
\* size only the 2/3-pot preset gives.
C15_Witness ==
  /\ mounted /\ currentStreet = "flop" /\ PotSize = 14
  /\ \E i \in 1..Len(actions) :
        /\ actions[i].street = "flop" /\ IsRaise(actions[i])
        /\ HasSize(actions[i]) /\ actions[i].sizeBb = 10

\* the ids of the actions of a list
IdsOf(s) == {s[i].id : i \in 1..Len(s)}

\* C16: in every step, an action of the hand that is no longer in the hand after
\* the step was an action of the current street.
C16_RemovedOnlyOnCurrentStreet ==
  [][\A i \in 1..Len(actions) :
        actions[i].id \notin IdsOf(actions') => actions[i].street = currentStreet]_vars

\* C16 witness: an action has been removed while the hand holds an action of a
\* street other than the current one.
C16_Witness ==
  /\ mounted /\ uuid > Len(actions)
  /\ \E i \in 1..Len(actions) : actions[i].street # currentStreet

\* the forced bets claimed for a table size and a blind level, in half BB
ClaimedForcedBets(n, b) ==
  IF n = 2 THEN 2
  ELSE CASE b = "0.5/1" -> 3 [] b = "1/2" -> 3 [] b = "1/1" -> 4

\* C17: on the preflop street the pot is the forced bets only, whatever actions
\* are recorded: 1.5 BB (blinds 0.5/1 and 1/2) or 2 BB (blinds 1/1) on tables of 3
\* to 9 seats, and 1 BB on a table of 2.
C17_PreflopPotIsForcedBets ==
  IsPreflop => PotSize = ClaimedForcedBets(tableSize, blind)

\* C17 witness: a 9-handed hand with blinds 1/1 and a preflop raise recorded shows
\* a preflop pot of 2 BB.
C17_Witness ==
  /\ mounted /\ IsPreflop /\ tableSize = 9 /\ blind = "1/1"
  /\ \E i \in 1..Len(actions) : IsRaise(actions[i]) /\ actions[i].street = "preflop"
  /\ PotSize = 4

StreetNames == {streets[i] : i \in 1..Len(streets)}
ActionsOf(acts) == {acts[i] : i \in 1..Len(acts)}

\* the pot entering street s for a list of actions, with the hand's table and blinds
PotEntering(acts, s) == potSize(acts, s, tableSize, blind)

\* a raise or a call on a street strictly before s
CountsTowardPot(a, s) ==
  /\ StreetIndex(a.street) < StreetIndex(s)
  /\ a.type \in {"RAISE", "CALL"}

\* the step appends action a or removes it
AppendsOrRemoves(a) ==
  \/ actions' = Append(actions, a)
  \/ \E i \in 1..Len(actions) :
       /\ actions[i] = a
       /\ actions' = SubSeq(actions, 1, i - 1) \o SubSeq(actions, i + 1, Len(actions))

\* C18: the pot entering a street depends only on the raises and calls of strictly
\* earlier streets: it equals the pot computed from those actions alone, and a step
\* that appends or removes an action on that street or a later one, or a CHECK or
\* FOLD on any street, leaves it unchanged.
C18_PotEnteringDependsOnEarlierBets ==
  /\ [](\A s \in StreetNames :
          PotEntering(actions, s)
            = PotEntering(SelectSeq(actions, LAMBDA a : CountsTowardPot(a, s)), s))
  /\ [][actions' # actions =>
          \A a \in (ActionsOf(actions) \cup ActionsOf(actions'))
                    \ (ActionsOf(actions) \cap ActionsOf(actions')) :
            \A s \in StreetNames :
              (AppendsOrRemoves(a) /\ ~CountsTowardPot(a, s))
                => PotEntering(actions', s) = PotEntering(actions, s)]_vars

\* C18 witness: after a called preflop raise a flop check and a flop raise are
\* recorded, and the pot entering the flop is still the one computed from the
\* preflop raise and its call alone.
C18_Witness ==
  /\ mounted /\ currentStreet = "flop" /\ Len(actions) = 4
  /\ \A i \in 1..2 : CountsTowardPot(actions[i], "flop")
  /\ \E j, k \in 3..4 :
       /\ actions[j].street = "flop" /\ actions[j].type = "CHECK"
       /\ actions[k].street = "flop" /\ IsRaise(actions[k])
  /\ PotSize = PotEntering(SubSeq(actions, 1, 2), "flop")
  /\ PotSize > 2

\* the seats with a FOLD recorded on any street
ExplicitFoldSet == {a.position : a \in {x \in ActionsOf(actions) : x.type = "FOLD"}}
\* the seats of the implicit-fold list
ImplicitFoldSet == {ImplicitlyFolded[i] : i \in 1..Len(ImplicitlyFolded)}
PreflopOrderSet == {preflopOrder(tableSize)[i] : i \in 1..Len(preflopOrder(tableSize))}

\* C19: on the preflop street the seats offered for a new action are exactly the
\* seats of the preflop order that are neither explicitly folded (a FOLD on any
\* street) nor implicitly folded, and the position buttons select only such seats.
C19_PreflopOffersUnfoldedSeats ==
  /\ [](IsPreflop =>
          \A pos \in Position :
            Includes(Available, pos)
              <=> (pos \in PreflopOrderSet \ (ExplicitFoldSet \cup ImplicitFoldSet)))
  /\ [][(IsPreflop /\ selectedPosition = "none" /\ selectedPosition' # "none")
          => selectedPosition' \in PreflopOrderSet \ (ExplicitFoldSet \cup ImplicitFoldSet)]_vars

\* C19 witness: 3-handed, the small blind opened without a button action and the
\* big blind folded: the button is an implicit fold, the big blind an explicit one,
\* and only the small blind is offered.
C19_Witness ==
  /\ mounted /\ IsPreflop /\ tableSize = 3
  /\ ImplicitFoldSet = {"BTN"}
  /\ ExplicitFoldSet = {"BB"}
  /\ Available = <<"SB">>

\* C20: a street with no recorded action is never reported complete and has no
\* automatic advance pending; an automatic advance that lands on a street without
\* actions schedules no further advance, and one is scheduled again only by a step
\* after which the current street has an action.
C20_EmptyStreetNeverAdvances ==
  /\ [](Len(CurrentStreetActions) = 0 => (~StreetComplete /\ timer = "none"))
  /\ [][(timer # "none" /\ ~UserEvent /\ Len(CurrentStreetActions') = 0)
          => timer' = "none"]_vars
  /\ [][(timer = "none" /\ timer' # "none") => Len(CurrentStreetActions') > 0]_vars

\* C20 witness: the editor was advanced automatically from a complete preflop onto
\* a flop without actions, and no further advance is pending.
C20_Witness ==
  /\ mounted /\ currentStreet = "flop"
  /\ Len(OnStreet(actions, "preflop")) > 0
  /\ Len(CurrentStreetActions) = 0
  /\ ~StreetComplete /\ timer = "none"

\* C21: a preflop street without a recorded raise is never reported complete,
\* whatever calls, checks and folds it holds, and has no automatic advance pending.
C21_UnraisedPreflopNeverComplete ==
  (IsPreflop /\ Len(SelectSeq(CurrentStreetActions, IsRaise)) = 0)
    => (~StreetComplete /\ timer = "none")

\* C21 witness: 3-handed, two preflop folds and no raise leave one seat, and the
\* street is not complete.
C21_Witness ==
  /\ mounted /\ IsPreflop /\ tableSize = 3
  /\ Len(SelectSeq(CurrentStreetActions, IsRaise)) = 0
  /\ Len(SelectSeq(CurrentStreetActions, IsFold)) = 2
  /\ Len(Available) = 1
  /\ ~StreetComplete

\* C22: every stored action has type FOLD, CHECK, CALL or RAISE, carries a sizeBb
\* exactly when its type is RAISE, and every stored sizeBb is non-negative or the
\* sentinel -1.
C22_StoredActionsWellFormed ==
  \A a \in ActionsOf(actions) :
    /\ a.type \in {"FOLD", "CHECK", "CALL", "RAISE"}
    /\ HasSize(a) <=> a.type = "RAISE"
    /\ HasSize(a) => (a.sizeBb >= 0 \/ a.sizeBb = AllInSentinel)

\* C22 witness: the big blind, with a stack of 2 BB, re-raised to 3 BB and then
\* moved all-in: the all-in is stored as a RAISE of size 0.
C22_Witness ==
  /\ mounted /\ stackBb["BB"] = 4
  /\ \E i, j \in 1..Len(actions) :
       /\ i < j
       /\ actions[i].position = "BB" /\ actions[i].type = "RAISE" /\ actions[i].sizeBb = 6
       /\ actions[j].position = "BB" /\ actions[j].type = "RAISE" /\ actions[j].sizeBb = 0

\* the entry is empty or has no digit (parseFloat gives NaN), or its value is not
\* greater than 0
EntryRejected == parseFloat(customSize) = <<>> \/ parseFloat(customSize)[1] <= 0

\* C25: confirming a free entry that is empty, not a number or not greater than 0
\* leaves the action list unchanged; the entry buffer never holds more than one
\* decimal separator; confirming a positive entry appends exactly one RAISE whose
\* size is the entry's value.
C25_NumpadRejectsNonPositiveEntries ==
  /\ [](Cardinality({i \in 1..Len(customSize) : customSize[i] = "."}) <= 1)
  /\ [][(handleNumpadConfirm /\ EntryRejected) => actions' = actions]_vars
  /\ [][(handleNumpadConfirm /\ ~EntryRejected) =>
          /\ Len(actions') = Len(actions) + 1
          /\ SubSeq(actions', 1, Len(actions)) = actions
          /\ actions'[Len(actions')].type = "RAISE"
          /\ actions'[Len(actions')].sizeBb = parseFloat(customSize)[1]]_vars

\* C25 witness: the entry ".5" was confirmed on the flop and a raise of half a big
\* blind is stored (no preset gives that size).
C25_Witness ==
  /\ mounted /\ Len(actions) = 3
  /\ actions[3].street = "flop" /\ actions[3].type = "RAISE" /\ actions[3].sizeBb = 1
  /\ customSize = <<>>

\* the remaining stack of the selected seat is known
SelectedStackKnown ==
  getRemainingStack(actions, stackBb, selectedPosition, tableSize, blind) # <<>>

\* the step records an all-in: by the All-in button of the type panel, or by the
\* All-in preset of the preflop size panel
RecordsAllIn ==
  /\ Len(actions') = Len(actions) + 1
  /\ \/ handleTypeSelect /\ actions'[Len(actions')].type = "RAISE"
     \/ handleSizeSelect /\ ~(actions'[Len(actions')].sizeBb \in PreflopPresetInputs \ {AllInSentinel})

\* C23: an all-in recorded for a seat whose remaining stack is known, by the All-in
\* button or by the All-in preset, stores that remaining stack as sizeBb; the
\* sentinel -1 is stored only for a seat whose stack is unknown.
C23_AllInStoresRemainingStack ==
  /\ [][(RecordsAllIn /\ SelectedStackKnown) =>
          actions'[Len(actions')].sizeBb
            = getRemainingStack(actions, stackBb, selectedPosition, tableSize, blind)[1]]_vars
  /\ [](\A a \in ActionsOf(actions) :
          (HasSize(a) /\ a.sizeBb = AllInSentinel) => stackBb[a.position] = 0)

\* the total a seat put in on one street: its blind on preflop, replaced by the
\* amount of its latest raise or call of that street
StreetContribution(pos, street) ==
  SpentFrom(OnStreet(actions, street), pos, 1,
            IF street # "preflop" THEN 0
            ELSE IF pos = "SB" /\ tableSize >= 3 THEN SBinBB(blind)
            ELSE IF pos = "BB" THEN 2 ELSE 0)

\* the seat's contributions of all streets of the hand so far
HandContribution(pos) ==
  StreetContribution(pos, "preflop") + StreetContribution(pos, "flop")
    + StreetContribution(pos, "turn") + StreetContribution(pos, "river")

\* C24: the remaining stack used for all-in sizing is the seat's starting stack
\* minus the sum of its own contributions on every street so far, floored at 0.
C24_RemainingStackSubtractsAllStreets ==
  \A pos \in PreflopOrderSet :
    stackBb[pos] # 0 =>
      getRemainingStack(actions, stackBb, pos, tableSize, blind)
        = <<Max(0, stackBb[pos] - HandContribution(pos))>>

\* sequence order lists every seat of the sequence seats exactly once
ListsEachSeatOnce(order, seats) ==
  /\ Len(order) = Len(seats)
  /\ \A i \in 1..Len(seats) :
       Cardinality({k \in 1..Len(order) : order[k] = seats[i]}) = 1
  /\ \A i, j \in 1..Len(order) : order[i] = order[j] => i = j

\* C26: for the hand's table size (every size 2 to 9 occurs) the preflop order and
\* the postflop order each list every seat of the size's position set exactly
\* once, BB is the last seat of the preflop order, and SB, when the size has an SB
\* seat, is the first seat of the postflop order.
C26_OrdersListEverySeatOnce ==
  LET seats == POSITIONS_BY_TABLE_SIZE[tableSize]
      pre == PREFLOP_ACTION_ORDER[tableSize]
      post == POSTFLOP_ACTION_ORDER[tableSize]
  IN  /\ ListsEachSeatOnce(pre, seats)
      /\ ListsEachSeatOnce(post, seats)
      /\ pre[Len(pre)] = "BB"
      /\ Includes(seats, "SB") => post[1] = "SB"

\* C26 witness: a 7-handed hand is being edited on the flop, where the seats are
\* offered in the 7-handed postflop order, small blind first.
C26_Witness ==
  /\ mounted /\ tableSize = 7 /\ currentStreet = "flop"
  /\ Len(POSITIONS_BY_TABLE_SIZE[tableSize]) = 7
  /\ Len(Available) = 7 /\ Available[1] = "SB" /\ Available[7] = "BTN"

\* C27: for a table size outside 2 to 9 the seat list, the preflop order and the
\* postflop order are those of one fixed default table size, and none is empty.
C27_OutOfRangeUsesDefaultSize ==
  tableSize \notin TABLE_SIZE_OPTIONS =>
    \E d \in TABLE_SIZE_OPTIONS :
      /\ positions(tableSize) = POSITIONS_BY_TABLE_SIZE[d]
      /\ preflopOrder(tableSize) = PREFLOP_ACTION_ORDER[d]
      /\ postflopOrder(tableSize) = POSTFLOP_ACTION_ORDER[d]

\* C28: the history holds between 1 and maxHistory snapshots, the cursor is within
\* it, the exposed state is the snapshot at the cursor, and undo at cursor 0 and
\* redo at the last entry leave the state unchanged.
C28_HistoryAndCursorInRange ==
  /\ [](/\ 1 <= Len(history) /\ Len(history) <= maxHistory
        /\ 0 <= currentIndex /\ currentIndex < Len(history)
        /\ state \in SnapshotInputs)
  /\ [][(undo /\ currentIndex = 0) => (state' = state /\ history' = history)]_vars
  /\ [][(redo /\ currentIndex = Len(history) - 1)
          => (state' = state /\ history' = history)]_vars

\* C28 witness: a full history of maxHistory = 3 snapshots with the cursor moved
\* back to its first entry.
C28_Witness ==
  /\ maxHistory = 3 /\ Len(history) = 3 /\ currentIndex = 0
  /\ canRedo /\ ~canUndo
  /\ state = history[1]

\* C29: a setState issued while a redo is possible discards every snapshot after
\* the cursor: afterwards the pushed snapshot is the current state and the last
\* history entry, canRedo is false, and the snapshots up to the cursor are kept in
\* order, the oldest one being dropped only when the history would exceed
\* maxHistory.
C29_SetStateTruncatesFuture ==
  [][(setState /\ canRedo) =>
       LET kept == SubSeq(history, 1, currentIndex + 1)
           pushed == history'[Len(history')]
       IN  /\ currentIndex' = Len(history') - 1
           /\ state' = pushed
           /\ ~canRedo'
           /\ IF Len(kept) + 1 > maxHistory
                THEN history' = Append(Tail(kept), pushed)
                ELSE history' = Append(kept, pushed)]_vars

\* C29 witness: with maxHistory = 3, a setState issued after two undos of a full
\* history removed the two snapshots after the cursor and left a history of two
\* snapshots with the cursor on the pushed one.
C29_Witness ==
  /\ maxHistory = 3 /\ discarded = 2
  /\ Len(history) = 2 /\ currentIndex = 1
  /\ ~canRedo /\ canUndo
  /\ state = history[2]

\* C30: an importAllData call on a document that JSON.parse rejects returns false
\* and leaves the three stored collections (players, hands, settings) as they
\* were, whatever members the text holds before the point where the parse fails.
C30_FailedImportWritesNothing ==
  [][(importAllData /\ JSONparse(document') = <<>>) =>
       (returned' = "false" /\ stored' = stored)]_vars

\* C30 witness: after an import that stored hands only, a document cut off after
\* its players and settings members was imported: the call returned false and the
\* collections still hold what they held before it.
C30_Witness ==
  /\ returned = "false"
  /\ document = <<"{", "players:[1]", "settings:{1}">>
  /\ stored = [k \in {"players", "hands", "settings"} |->
                IF k = "hands" THEN "1" ELSE "0"]

\* every slot of heroCards, the board and the opponentHands entries with its card
SlotCards ==
  {<<"hero", i, heroCards[i]>> : i \in 1..2}
    \cup {<<"flop", i, board.flop[i]>> : i \in 1..3}
    \cup {<<"turn", 1, board.turn>>, <<"river", 1, board.river>>}
    \cup UNION {{<<p, i, opponentHands[p][i]>> : i \in 1..2} : p \in DOMAIN opponentHands}

\* C31: no card value is in more than one slot across heroCards, the board and all
\* opponentHands entries.
C31_NoCardInTwoSlots ==
  \A a, b \in SlotCards : (a[3] # "" /\ a[3] = b[3]) => a = b

\* C31 witness: with Qs in an opponent's hand, the last selection overwrote the
\* hero's first card, As, with Ks.
C31_Witness ==
  /\ replaced = "As" /\ heroCards[1] = "Ks"
  /\ "BB" \in DOMAIN opponentHands /\ opponentHands["BB"][1] = "Qs"

\* the seats of tableAssignments that carry isHero = true
HeroSeats == {p \in DOMAIN tableAssignments : tableAssignments[p].isHero = "true"}

\* C32: at most one seat of tableAssignments carries isHero = true, such a seat is
\* heroPosition, and heroPosition is a seat of the current table size.
C32_OneHeroSeatAtHeroPosition ==
  /\ Cardinality(HeroSeats) <= 1
  /\ HeroSeats \subseteq {heroPosition}
  /\ heroPosition \in SeatsOf(POSITIONS_BY_TABLE_SIZE[tableSize])

\* C32 witness: the hero was set to UTG at a 4-handed table, the table became
\* 3-handed, which has no UTG seat: the hero is on the button and no seat is flagged.
C32_Witness ==
  /\ tableSize = 3 /\ heroPosition = "BTN"
  /\ HeroSeats = {}
  /\ tableAssignments["BTN"].isHero = "false"
  /\ tableAssignments["SB"].playerId = "p1"

\* C33: the position of every recorded action is a seat of the position set of the
\* hand's current tableSize.
C33_ActionSeatsBelongToTableSize ==
  \A i \in 1..Len(actions) :
    Includes(POSITIONS_BY_TABLE_SIZE[tableSize], actions[i].position)

\* C34: every change of the editor's hand is written to the store: while the
\* editor is shown the stored hand equals the editor's hand, and after Complete
\* (Save draft) the stored hand has status done (draft).
C34_EveryEditIsStored ==
  [][/\ mounted' => storedHand' = hand'
     /\ handleComplete => storedHand'.status = "done"
     /\ handleSaveDraft => storedHand'.status = "draft"]_vars

\* the step appends one action for the selected seat on the current street
AppendsForSelectedSeat ==
  /\ Len(actions') = Len(actions) + 1
  /\ SubSeq(actions', 1, Len(actions)) = actions
  /\ actions'[Len(actions')].position = selectedPosition
  /\ actions'[Len(actions')].street = currentStreet

\* the step removes one action
RemovesOneAction ==
  \E i \in 1..Len(actions) :
    actions' = SubSeq(actions, 1, i - 1) \o SubSeq(actions, i + 1, Len(actions))

\* C35: a step that is not a user event (the automatic street advance) changes no
\* field of the hand, its action list included, and nothing in the store, so that
\* no implicit fold or implied check is ever written; and the action list changes
\* only in a user event that appends one action for the selected seat or removes one.
C35_AutoAdvanceWritesNoAction ==
  [][/\ ~UserEvent => (hand' = hand /\ storedHand' = storedHand)
     /\ actions' # actions
          => (UserEvent /\ (AppendsForSelectedSeat \/ RemovesOneAction))]_vars

\* C35 witness: a 3-handed hand reached the flop by the automatic advance (the user
\* opens no tab but preflop) with one seat out of the hand by an implicit fold, and
\* the two recorded actions are all the hand holds: no FOLD was written.
C35_Witness ==
  /\ mounted /\ currentStreet = "flop" /\ tabs = {"preflop"}
  /\ tableSize = 3 /\ Len(PlayersInHand) = 2
  /\ ExplicitFoldSet = {} /\ Len(actions) = 2
  /\ storedHand = hand

\* C36: the label of every recorded action in the editor's action log equals the
\* label the share-text export produces for the same action.
C36_EditorAndExportLabelsAgree ==
  \A i \in 1..Len(actions) :
    getActionDisplayLabel(actions[i], actions) = getRaiseLabel(actions[i], actions)

\* the editor has been on a street later than s: an action is recorded on one
AdvancedPast(s) ==
  \E i \in 1..Len(actions) : StreetIndex(actions[i].street) > StreetIndex(s)

\* C37: once the editor has advanced from a street to a later one, no step adds or
\* removes an action of that street.
C37_ClosedStreetsAreFrozen ==
  [][\A s \in StreetNames :
       AdvancedPast(s) => OnStreet(actions', s) = OnStreet(actions, s)]_vars

\* the batches whose calls all pass a value
ValueBatches == UNION {[1..n -> SnapshotInputs] : n \in 2..MaxBatch}

\* C38: the cursor always indexes an existing history entry, and when setState is
\* called several times before the next render (no more often than maxHistory)
\* the history ends with the pushed snapshots, in the order of the calls.
C38_BatchedPushesAreKept ==
  /\ [](0 <= currentIndex /\ currentIndex < Len(history))
  /\ [][\A calls \in ValueBatches :
          (setStateBatch(calls) /\ Len(calls) <= maxHistory)
            => /\ Len(history') >= Len(calls)
               /\ SubSeq(history', Len(history') - Len(calls) + 1, Len(history')) = calls]_vars

\* the hand of the id is stored and no run of the initial-load effect is due
LoadQuiesced == mounted /\ stored["hands"] # "absent" /\ loadedWith = currentIndex

\* C39: opening a stored hand pushes it into the history exactly once: the
\* initial-load effect runs once, after the first render, and when no run is due
\* the history is [null, loadedHand] with the cursor at 1.
C39_LoadPushesOnce ==
  /\ [][loadEffect => loadedWith = NoCallback]_vars
  /\ [](LoadQuiesced => (history = <<NullHand, LoadedHand>> /\ currentIndex = 1))

\* C40: for the hand's table size n (every size 2 to 9 occurs) the position set,
\* the preflop order and the postflop order each hold exactly n seats.
C40_TablesHoldTableSizeSeats ==
  \A table \in {POSITIONS_BY_TABLE_SIZE, PREFLOP_ACTION_ORDER, POSTFLOP_ACTION_ORDER} :
    /\ Len(table[tableSize]) = tableSize
    /\ Cardinality(SeatsOf(table[tableSize])) = tableSize

====
